---- MODULE Spec2Model ----
(***************************************************************************)
(* State-machine model of the e-commerce backend (ecommerce-backend/api.py *)
(* and database/repositories_simple.py): catalog, carts, checkout,         *)
(* payment, cancellation, refund and the admin order pipeline.             *)
(*                                                                         *)
(* Spec      : HTTP requests served one at a time (each handler is one     *)
(*             atomic action, ending with the commits the handler makes).  *)
(* ShopSpec  : the same without the admin's edits of products.             *)
(* AddSpec   : two add_to_cart requests interleaved between the database   *)
(*             statements and commits of the handler.                      *)
(* PaySpec   : two pay_order requests interleaved the same way.            *)
(* PlaceSpec : two checkout requests interleaved the same way.             *)
(* CancelSpec: two cancel / refund requests interleaved the same way.      *)
(* CheckoutSpec : carts, checkout and payment with room for a second order *)
(*             and an admin who renames and reprices products.             *)
(* StockSpec : every operation that writes a price or a stock, among them  *)
(*             the repository's reserve_stock and release_stock.           *)
(* AuthSpec  : AuthService.register and the password-reset tokens          *)
(*             (services/auth_service.py).                                 *)
(* PayFormSpec : pay_order with every payment form.                        *)
(* ServiceSpec : payment, cancellation and refund of one order through the *)
(*             endpoints and through PaymentService                        *)
(*             (services/payment_service.py).                              *)
(* LuhnSpec  : validate_luhn (utils/validations.py) applied to digit       *)
(*             strings.                                                    *)
(* SupportSpec : the support threads and their messages.                   *)
(* InvoiceSpec : two invoice requests (get_invoice, download_invoice_pdf)  *)
(*             interleaved between their database statements.              *)
(* GatewaySpec : the simulated payment gateway applied to card numbers     *)
(*             (services/payment_service.py, _simulate_payment).           *)
(* RepoSpec  : PostgreSQLCartRepository called directly: add_item,         *)
(*             remove_item, clear_cart on the carts and cart_items tables. *)
(* SeedSpec  : init_sample_data on a products table whose rows the admin   *)
(*             switches on and off or deletes.                             *)
(* CatalogSpec : carts, two orders, payment and cancellation with an admin *)
(*             who edits, deletes and resets products.                     *)
(*                                                                         *)
(* A request that is refused before any write changes no variable; its     *)
(* HTTP status is given by the operator <handler>_code evaluated in the    *)
(* state the request finds.                                                *)
(***************************************************************************)
EXTENDS Integers, Sequences, FiniteSets, TLC

\* ------------------------------------------------------------------ bounds
MaxStock == 2
MaxQty == 2
MaxOrders == 1
MaxPayments == 2
MaxCheckoutOrders == 2
MaxTokens == 2
MaxThreads == 2
MaxMessages == 2
MaxDigits == 3
MaxCardLen == 8
MaxLineQty == 3

\* ------------------------------------------------------- program constants
\* os.getenv("LOW_STOCK_HIDE_THRESHOLD", "0")
LOW_STOCK_HIDE_THRESHOLD == 0

Users == {"u1", "u2"}
ProductSeq == <<"p1">>
Products == {ProductSeq[i] : i \in 1..Len(ProductSeq)}
Cards == {"ok", "declined", "invalid"}
Reqs == {"r1", "r2"}

\* Callers of the HTTP endpoints: the customers and an administrator
Callers == Users \cup {"admin"}

\* users.is_admin of each caller; no request writes the column
is_admin == [u \in Callers |-> u = "admin"]

\* Emails, passwords and bcrypt salts of AuthSpec
Emails == {"admin@example.com", "client@example.com", "new@example.com"}
Passwords == {"admin123", "secret"}
Salts == {"s1", "s2"}

OrderStatus == {"CREE", "VALIDEE", "PAYEE", "EXPEDIEE", "LIVREE", "ANNULEE", "REMBOURSEE"}
PaymentStatus == {"PENDING", "SUCCEEDED", "FAILED", "REFUNDED"}

None == "None"
NoLine == [quantity |-> 0, unit_price_cents |-> 0, name |-> None]
NoItems == [p \in Products |-> NoLine]

VARIABLES
    name,        \* products.name
    price_cents, \* products.price_cents
    stock_qty,   \* products.stock_qty
    active,      \* products.active
    cartExists,  \* a carts row exists for the user
    cart,        \* cart_items.quantity per (user, product); 0 = no row
    cartDup,     \* quantity of a second cart_items row for the same (user, product); 0 = none
    orders,      \* orders table (with its order_items), in creation order
    payments,    \* payments table, in creation order
    invoices,    \* invoices table, in creation order
    accounts,    \* users table, in creation order
    reset_tokens, \* password_reset_tokens table, in creation order
    threads,     \* message_threads table with each thread's messages, in creation order
    products,    \* ids of the rows of the products table
    carts,       \* carts table row by row (user_id), in creation order (RepoSpec)
    cart_items,  \* cart_items table row by row, in creation order (RepoSpec)
    lock,        \* holder of the row lock on each product (SELECT ... FOR UPDATE)
    req,         \* the in-flight requests of AddSpec / PaySpec and their local variables
    decr,        \* history: times pay_order's loop has written the stock for (order, product)
    deactivated_by \* history: what last switched each product off ("sale", "admin"); None while active

dbvars == <<name, price_cents, stock_qty, active, cartExists, cart, cartDup, orders, payments,
            invoices, accounts, reset_tokens, threads, products, carts, cart_items>>
vars == <<name, price_cents, stock_qty, active, cartExists, cart, cartDup, orders, payments,
          invoices, accounts, reset_tokens, threads,
          products, carts, cart_items, lock, req, decr, deactivated_by>>

Max(a, b) == IF a >= b THEN a ELSE b

OrderIds == 1..MaxOrders
Existing(o) == o \in DOMAIN orders

\* Order.total_cents / sum(item.unit_price_cents * item.quantity for item in order.items)
RECURSIVE SumLines(_, _)
SumLines(items, ps) ==
    IF ps = {} THEN 0
    ELSE LET p == CHOOSE x \in ps : TRUE
         IN items[p].unit_price_cents * items[p].quantity + SumLines(items, ps \ {p})
total_cents(items) == SumLines(items, Products)

\* PostgreSQLPaymentRepository.get_by_order_id
PaymentsOf(o) == {i \in DOMAIN payments : payments[i].order_id = o}

\* A request slot of AddSpec / PaySpec before the request arrives
IdleReq == [kind |-> "idle", pc |-> "idle", user |-> None, product |-> None, order |-> 0,
            qty |-> 0, card |-> None, seen |-> 0, row |-> 0, pay |-> 0, idx |-> 0, code |-> 0]

\* ------------------------------------------------ fault-seeded variants
\* Each is a guard or computation of the program with one plausible fault; a property
\* that holds of the program is expected to fail once the variant replaces the original.
\* admin_ship_order that also ships an order nobody paid or validated
CanShipUnguarded(status) == status \in {"CREE", "VALIDEE", "PAYEE"}

\* cancel that also accepts a delivered order
CancellableDelivered(status) == status \in {"CREE", "VALIDEE", "PAYEE", "LIVREE"}

\* pay_order without the floor at 0
DecrementedUnfloored(current_stock, qty_to_decrement) == current_stock - qty_to_decrement

\* pay_order that accepts an order already paid
CanPayPaid(status) == status \in {"CREE", "PAYEE"}

\* add_to_cart that forgets the quantity already in the cart
ExceedsStockIgnoringCart(quantity_in_cart, qty, stock) == qty > stock

\* cancel that does not put the line quantity back
RestoredNothing(current_stock, quantity) == current_stock

\* checkout that reuses an open order without deleting the lines it already has
LinesAppended(u) ==
    [p \in Products |->
        LET old == IF \E o \in DOMAIN orders : orders[o].user_id = u /\ orders[o].status = "CREE"
                   THEN (orders[CHOOSE o \in DOMAIN orders :
                                    orders[o].user_id = u /\ orders[o].status = "CREE"]).items[p].quantity
                   ELSE 0
        IN IF cart[u][p] + old > 0
           THEN [quantity |-> cart[u][p] + old, unit_price_cents |-> price_cents[p], name |-> name[p]]
           ELSE NoLine]

\* checkout that does not compare the line's quantity with the stock
CheckoutRefusedStockBlind(u) ==
    \/ ~cartExists[u]
    \/ \A p \in Products : cart[u][p] = 0
    \/ \E p \in Products : cart[u][p] > 0 /\ ~active[p]

\* order reads that look the order up without comparing its user_id with the caller
VisibleToAll(u, o) == o \in DOMAIN orders

\* require_admin that lets every authenticated caller through
RequireAdminOpen(u) == 200

\* a user lookup that finds nobody
GetByEmailNobody(email) == 0

\* verify_reset_token without the filter on used
VerifyResetTokenReusable(t) ==
    IF t \in DOMAIN reset_tokens /\ ~reset_tokens[t].deleted /\ ~reset_tokens[t].expired
    THEN reset_tokens[t].user_id
    ELSE 0

\* pay_order that records every attempt as a succeeded charge
NewPaymentCharged(o, amount, success) ==
    [order_id |-> o, amount_cents |-> amount, status |-> "SUCCEEDED", charge_id |-> TRUE]

\* pay_order that validates the CVV before the card number
FirstInvalidCvvFirst(form) ==
    IF form.cvc = "invalid" THEN "cvv_error"
    ELSE IF form.card_number = "invalid" THEN "card_error"
    ELSE IF form.expiry = "invalid" THEN "expiry_error"
    ELSE IF form.postal_code = "invalid" THEN "postal_error"
    ELSE IF form.phone = "invalid" THEN "phone_error"
    ELSE IF form.street_number = "invalid" THEN "street_error"
    ELSE IF form.street_name = "invalid" THEN "street_name_error"
    ELSE None

\* admin_refund_order that also refunds an order validated but not shipped
CanRefundValidated(status) == status \in {"VALIDEE", "PAYEE", "EXPEDIEE", "LIVREE"}

\* ---------------------------------------------------------------- guards
\* add_to_cart: total_quantity = quantity_in_cart + inp.qty; total_quantity > product.stock_qty
ExceedsStock(quantity_in_cart, qty, stock) == quantity_in_cart + qty > stock

\* pay_order: str(order.status) != OrderStatus.CREE.value is refused
CanPay(status) == status = "CREE"

\* admin_validate_order: status in [CREE, PAYEE]
CanValidate(status) == status \in {"CREE", "PAYEE"}

\* admin_ship_order: status in [VALIDEE, PAYEE]
CanShip(status) == status \in {"VALIDEE", "PAYEE"}

\* admin_mark_delivered: status == EXPEDIEE
CanDeliver(status) == status = "EXPEDIEE"

\* admin_refund_order: status in [PAYEE, EXPEDIEE, LIVREE]
CanRefund(status) == status \in {"PAYEE", "EXPEDIEE", "LIVREE"}

\* cancel_order / admin_cancel_order: cancellable_statuses
Cancellable(status) == status \in {"CREE", "VALIDEE", "PAYEE"}

\* cancel_order / admin_cancel_order: was_paid = order.status == OrderStatus.PAYEE
WasPaid(status) == status = "PAYEE"

\* cancel_order / admin_cancel_order: REMBOURSEE if was_paid else ANNULEE
CancelStatus(was_paid) == IF was_paid THEN "REMBOURSEE" ELSE "ANNULEE"

\* pay_order: new_stock = max(0, current_stock - qty_to_decrement)
DecrementedStock(current_stock, qty_to_decrement) == Max(0, current_stock - qty_to_decrement)

\* pay_order: if new_stock <= threshold: product.active = False
HideAfterSale(new_stock) == new_stock <= LOW_STOCK_HIDE_THRESHOLD

\* cancel / refund: product.stock_qty += item.quantity
RestoredStock(current_stock, quantity) == current_stock + quantity

\* cancel / refund: if not product.active and product.stock_qty > 0: product.active = True
ActiveAfterRestore(was_active, new_stock) == was_active \/ new_stock > 0

\* ------------------------------------------------------------- passwords
\* bcrypt.hashpw(password, salt): a digest determined by the salt and the password
Digest(salt, password) == <<"$2b$", salt, password>>

\* AuthService.hash_password: the stored string holds the salt and the digest
hash_password(password, salt) == [salt |-> salt, digest |-> Digest(salt, password)]

\* AuthService.verify_password: bcrypt.checkpw hashes the password with the stored salt
verify_password(password, hashed_password) ==
    Digest(hashed_password.salt, password) = hashed_password.digest

\* init_db: the admin and client accounts created when the users table is empty
SeedAccounts ==
    <<[email |-> "admin@example.com", password_hash |-> hash_password("admin123", "s1"),
       is_admin |-> TRUE],
      [email |-> "client@example.com", password_hash |-> hash_password("secret", "s1"),
       is_admin |-> FALSE]>>

\* ------------------------------------------------------------ initial state
\* Catalog as seeded: every product active with its full stock.
InitCatalog ==
    /\ name = [p \in Products |-> "n1"]
    /\ price_cents = [p \in Products |-> IF p = "p1" THEN 1 ELSE 2]
    /\ stock_qty = [p \in Products |-> MaxStock]
    /\ active = [p \in Products |-> TRUE]

\* The users table as seeded at startup, no invoice, no reset token.
InitTables ==
    /\ invoices = <<>>
    /\ accounts = SeedAccounts
    /\ reset_tokens = <<>>
    /\ threads = <<>>
    /\ products = Products
    /\ carts = <<>>
    /\ cart_items = <<>>

\* No request in flight.
InitIdle ==
    /\ lock = [p \in Products |-> None]
    /\ req = [r \in Reqs |-> IdleReq]
    /\ decr = [o \in OrderIds |-> [p \in Products |-> 0]]
    /\ deactivated_by = [p \in Products |-> None]

\* No cart, no order, no payment.
Init ==
    /\ InitCatalog
    /\ cartExists = [u \in Users |-> FALSE]
    /\ cart = [u \in Users |-> [p \in Products |-> 0]]
    /\ cartDup = [u \in Users |-> [p \in Products |-> 0]]
    /\ orders = <<>>
    /\ payments = <<>>
    /\ InitTables
    /\ InitIdle

\* A request answered without any write leaves every variable as it is.
NoWrite == UNCHANGED vars

\* ------------------------------------------------------------------- cart
\* add_to_cart: quantity_in_cart
QuantityInCart(u, p) == IF cartExists[u] THEN cart[u][p] ELSE 0

\* PostgreSQLCartRepository.add_item (quantity > 0, product id non-empty)
CartAfterAdd(c, u, p, q) == [c EXCEPT ![u][p] = @ + q]

\* PostgreSQLCartRepository.remove_item
CartAfterRemove(c, u, p, q) ==
    IF ~cartExists[u] \/ c[u][p] = 0 THEN c
    ELSE IF q = 0 THEN [c EXCEPT ![u][p] = 0]
    ELSE [c EXCEPT ![u][p] = IF @ - q <= 0 THEN 0 ELSE @ - q]

\* PostgreSQLCartRepository.clear_cart
CartAfterClear(c, u) == IF cartExists[u] THEN [c EXCEPT ![u] = [p \in Products |-> 0]] ELSE c

\* add_to_cart: the answer decided before the write (200 = the add goes on to add_item)
add_to_cart_code(u, p, q) ==
    IF p \notin Products THEN 404
    ELSE IF ~active[p] THEN 400
    ELSE IF ExceedsStock(QuantityInCart(u, p), q, stock_qty[p]) THEN 400
    ELSE IF q <= 0 THEN 400
    ELSE 200

\* add_to_cart: the values the "Stock insuffisant" message is formatted from
add_to_cart_detail(u, p, q) ==
    [name |-> name[p], stock |-> stock_qty[p], held |-> QuantityInCart(u, p), requested |-> q]

\* POST /cart/add
add_to_cart(u, p, q) ==
    IF add_to_cart_code(u, p, q) # 200
    THEN NoWrite
    ELSE /\ cartExists' = [cartExists EXCEPT ![u] = TRUE]
         /\ cart' = CartAfterAdd(cart, u, p, q)
         /\ UNCHANGED <<name, price_cents, stock_qty, active, cartDup, orders, payments,
                        lock, req, decr, deactivated_by, invoices, accounts, reset_tokens, threads,
                        products, carts, cart_items>>

\* POST /cart/remove
remove_from_cart(u, p, q) ==
    /\ cart' = (IF p \in Products THEN CartAfterRemove(cart, u, p, q) ELSE cart)
    /\ UNCHANGED <<name, price_cents, stock_qty, active, cartExists, cartDup, orders, payments,
                   lock, req, decr, deactivated_by, invoices, accounts, reset_tokens, threads,
                   products, carts, cart_items>>

\* POST /cart/clear
clear_cart(u) ==
    /\ cart' = CartAfterClear(cart, u)
    /\ UNCHANGED <<name, price_cents, stock_qty, active, cartExists, cartDup, orders, payments,
                   lock, req, decr, deactivated_by, invoices, accounts, reset_tokens, threads,
                   products, carts, cart_items>>

\* GET /cart: lines whose product is inactive are deleted
view_cart(u) ==
    /\ cart' = (IF cartExists[u]
                THEN [cart EXCEPT ![u] = [p \in Products |-> IF active[p] THEN @[p] ELSE 0]]
                ELSE cart)
    /\ UNCHANGED <<name, price_cents, stock_qty, active, cartExists, cartDup, orders, payments,
                   lock, req, decr, deactivated_by, invoices, accounts, reset_tokens, threads,
                   products, carts, cart_items>>

\* ---------------------------------------------------------------- checkout
\* PostgreSQLOrderRepository.create: a new order; a timestamp column is modelled by
\* whether it is set, created_at by whether it lies within the last 30 minutes
NewOrder(u) ==
    [user_id |-> u, status |-> "CREE", items |-> NoItems, payment_id |-> 0, recent |-> TRUE,
     validated_at |-> FALSE, shipped_at |-> FALSE, delivered_at |-> FALSE,
     cancelled_at |-> FALSE, refunded_at |-> FALSE, delivery |-> None]

\* checkout: order lines written from the cart with the product's current name and price
LinesFromCart(u) ==
    [p \in Products |->
        IF cart[u][p] > 0
        THEN [quantity |-> cart[u][p], unit_price_cents |-> price_cents[p], name |-> name[p]]
        ELSE NoLine]

\* checkout: cart_total_cents
CartTotal(u) == total_cents(LinesFromCart(u))

\* Order.created_at = Column(DateTime, default=utcnow): a timestamp without time zone,
\* read back from the database as a naive datetime
created_at_tzinfo(o) == None

\* checkout: datetime.now(UTC)
now_tzinfo == "UTC"

\* datetime.__sub__: TypeError when exactly one of the operands is naive
SubtractRaises(a_tzinfo, b_tzinfo) == (a_tzinfo = None) # (b_tzinfo = None)

\* checkout: datetime.now(UTC) - created_at <= recent_window, inside try / except: continue
WithinWindow(o) ==
    IF SubtractRaises(now_tzinfo, created_at_tzinfo(o)) THEN FALSE ELSE orders[o].recent

\* checkout: the PAYEE orders of the user for which the loop reaches its return
RecentPaidSame(u) ==
    {o \in DOMAIN orders :
        /\ orders[o].user_id = u
        /\ orders[o].status = "PAYEE"
        /\ WithinWindow(o)
        /\ total_cents(orders[o].items) = CartTotal(u)}

\* checkout: open (CREE) orders of the user
OpenOrders(u) == {o \in DOMAIN orders : orders[o].user_id = u /\ orders[o].status = "CREE"}

First(S) == CHOOSE o \in S : \A x \in S : o <= x

\* checkout: the cart is absent or empty, or a line's product is inactive or short of stock
CheckoutRefused(u) ==
    \/ ~cartExists[u]
    \/ \A p \in Products : cart[u][p] = 0
    \/ \E p \in Products : cart[u][p] > 0 /\ (~active[p] \/ stock_qty[p] < cart[u][p])

\* checkout: the HTTP answer
checkout_code(u) == IF CheckoutRefused(u) THEN 400 ELSE 200

\* checkout: the order the answer names (CheckoutOut.order_id)
checkout_order(u) ==
    IF RecentPaidSame(u) # {} THEN First(RecentPaidSame(u))
    ELSE IF OpenOrders(u) # {} THEN First(OpenOrders(u))
    ELSE Len(orders) + 1

\* POST /orders/checkout, with at most cap orders in the table
checkout_within(u, cap) ==
    IF checkout_code(u) # 200
    THEN NoWrite
    ELSE /\ UNCHANGED <<name, price_cents, stock_qty, active, cartExists, cart, cartDup,
                        payments, lock, req, decr, deactivated_by, invoices, accounts, reset_tokens, threads,
                        products, carts, cart_items>>
         /\ IF RecentPaidSame(u) # {}
            THEN UNCHANGED orders
            ELSE IF OpenOrders(u) # {}
            THEN orders' = [orders EXCEPT ![First(OpenOrders(u))].items = LinesFromCart(u)]
            ELSE /\ Len(orders) < cap
                 /\ orders' = Append(orders, [NewOrder(u) EXCEPT !.items = LinesFromCart(u)])

\* POST /orders/checkout
checkout(u) == checkout_within(u, MaxOrders)

\* Time passes: the oldest order still inside the 30-minute window leaves it.
TimePasses ==
    /\ \E o \in DOMAIN orders :
        /\ orders[o].recent
        /\ \A x \in DOMAIN orders : x < o => ~orders[x].recent
        /\ orders' = [orders EXCEPT ![o].recent = FALSE]
    /\ UNCHANGED <<name, price_cents, stock_qty, active, cartExists, cart, cartDup, payments,
                   lock, req, decr, deactivated_by, invoices, accounts, reset_tokens, threads,
                   products, carts, cart_items>>

\* ----------------------------------------------------------------- payment
\* pay_order: stock written by the loop over order.items
StockAfterSale(items) ==
    [p \in Products |->
        IF items[p].quantity > 0
        THEN DecrementedStock(stock_qty[p], items[p].quantity)
        ELSE stock_qty[p]]

\* pay_order: active flag written by the loop over order.items
ActiveAfterSale(items) ==
    [p \in Products |->
        IF items[p].quantity > 0 /\ HideAfterSale(DecrementedStock(stock_qty[p], items[p].quantity))
        THEN FALSE
        ELSE active[p]]

\* pay_order: the products the loop switches off are recorded as switched off by a sale
DeactivatedAfterSale(items) ==
    [p \in Products |->
        IF active[p] /\ ~ActiveAfterSale(items)[p] THEN "sale" ELSE deactivated_by[p]]

\* pay_order: one more write of the stock for each line of the order
DecrAfterSale(o) ==
    [decr EXCEPT ![o] = [p \in Products |-> IF orders[o].items[p].quantity > 0 THEN @[p] + 1 ELSE @[p]]]

\* pay_order: payment_data_dict
NewPayment(o, amount, success) ==
    [order_id |-> o, amount_cents |-> amount,
     status |-> IF success THEN "SUCCEEDED" ELSE "FAILED", charge_id |-> success]

\* pay_order: the HTTP answer
pay_order_code(u, o, card) ==
    IF ~Existing(o) THEN 404
    ELSE IF orders[o].user_id # u THEN 404
    ELSE IF ~CanPay(orders[o].status) THEN 400
    ELSE IF card = "invalid" THEN 422
    ELSE IF card = "declined" THEN 402
    ELSE 200

\* POST /orders/{order_id}/pay
pay_order(u, o, card) ==
    IF pay_order_code(u, o, card) \in {404, 400, 422}
    THEN NoWrite
    ELSE /\ Len(payments) < MaxPayments
         /\ payments' = Append(payments, NewPayment(o, total_cents(orders[o].items), card = "ok"))
         /\ UNCHANGED <<name, price_cents, cartExists, cartDup, invoices, accounts, reset_tokens, threads,
                        products, carts, cart_items,
                        lock, req>>
         /\ IF card # "ok"
            THEN UNCHANGED <<stock_qty, active, cart, orders, decr, deactivated_by>>
            ELSE /\ stock_qty' = StockAfterSale(orders[o].items)
                 /\ active' = ActiveAfterSale(orders[o].items)
                 /\ decr' = DecrAfterSale(o)
                 /\ deactivated_by' = DeactivatedAfterSale(orders[o].items)
                 /\ cart' = CartAfterClear(cart, u)
                 /\ orders' = [orders EXCEPT ![o].status = "PAYEE",
                                             ![o].payment_id = Len(payments) + 1]

\* PaymentGateway.charge_card: the outcome for a card number that passed validation
charge_card(card) ==
    IF card = "ok"
    THEN [success |-> TRUE, failure_reason |-> None]
    ELSE [success |-> FALSE, failure_reason |-> "Votre carte a été refusée."]

\* pay_order: the detail of the HTTP answer
pay_order_detail(u, o, card) ==
    LET code == pay_order_code(u, o, card) IN
    IF code = 404 THEN "Commande introuvable"
    ELSE IF code = 400 THEN "Commande déjà payée ou traitée"
    ELSE IF code = 422 THEN "card_error"
    ELSE IF code = 402 THEN charge_card(card).failure_reason
    ELSE "SUCCEEDED"

\* PayIn: for each field whether its validator accepts it; a field the request leaves
\* out or empty is "absent"
Forms ==
    [card_number : Cards, cvc : {"valid", "invalid"}, expiry : {"valid", "invalid"},
     postal_code : {"absent", "valid", "invalid"}, phone : {"absent", "valid", "invalid"},
     street_number : {"absent", "valid", "invalid"}, street_name : {"absent", "valid", "invalid"}]

\* pay_order: the message of the first validation that fails; None when all pass
FirstInvalid(form) ==
    IF form.card_number = "invalid" THEN "card_error"
    ELSE IF form.cvc = "invalid" THEN "cvv_error"
    ELSE IF form.expiry = "invalid" THEN "expiry_error"
    ELSE IF form.postal_code = "invalid" THEN "postal_error"
    ELSE IF form.phone = "invalid" THEN "phone_error"
    ELSE IF form.street_number = "invalid" THEN "street_error"
    ELSE IF form.street_name = "invalid" THEN "street_name_error"
    ELSE None

\* pay_order: what the form amounts to for the steps after validation
CardOf(form) == IF FirstInvalid(form) # None THEN "invalid" ELSE form.card_number

\* pay_order: the HTTP answer to a request carrying the form
pay_order_form_answer(u, o, form) ==
    LET code == pay_order_code(u, o, CardOf(form)) IN
    [code |-> code,
     detail |-> IF code = 422 THEN FirstInvalid(form) ELSE pay_order_detail(u, o, CardOf(form))]

\* POST /orders/{order_id}/pay with a payment form
pay_order_form(u, o, form) == pay_order(u, o, CardOf(form))

\* ------------------------------------------------------- cancel and refund
\* cancel / refund: stock written by the loop over order.items
StockAfterRestore(items) ==
    [p \in Products |->
        IF items[p].quantity > 0
        THEN RestoredStock(stock_qty[p], items[p].quantity)
        ELSE stock_qty[p]]

\* cancel / refund: active flag written by the loop over order.items
ActiveAfterRestoreAll(items) ==
    [p \in Products |->
        IF items[p].quantity > 0
        THEN ActiveAfterRestore(active[p], RestoredStock(stock_qty[p], items[p].quantity))
        ELSE active[p]]

\* cancel / refund: a product the loop switches on is no longer recorded as switched off
DeactivatedAfterRestore(items) ==
    [p \in Products |-> IF ActiveAfterRestoreAll(items)[p] THEN None ELSE deactivated_by[p]]

\* for payment in payments: payment.status = "REFUNDED"
MarkRefunded(o) ==
    [i \in DOMAIN payments |->
        IF payments[i].order_id = o THEN [payments[i] EXCEPT !.status = "REFUNDED"] ELSE payments[i]]

\* sum(p.amount_cents for p in payments) over a set of payment rows
RECURSIVE SumAmounts(_)
SumAmounts(rows) ==
    IF rows = {} THEN 0
    ELSE LET i == CHOOSE x \in rows : TRUE
         IN payments[i].amount_cents + SumAmounts(rows \ {i})

\* cancel_order / admin_cancel_order: refund_info["amount_cents"] for a paid order
total_refunded(o) == SumAmounts(PaymentsOf(o))

\* cancel_order: the HTTP answer
cancel_order_code(u, o) ==
    IF ~Existing(o) THEN 404
    ELSE IF orders[o].user_id # u THEN 404
    ELSE IF ~Cancellable(orders[o].status) THEN 400
    ELSE 200

\* admin_cancel_order: the HTTP answer
admin_cancel_order_code(o) ==
    IF ~Existing(o) THEN 404
    ELSE IF ~Cancellable(orders[o].status) THEN 400
    ELSE 200

\* Writes shared by cancel_order and admin_cancel_order once the order is found cancellable
CancelWrites(o) ==
    LET was_paid == WasPaid(orders[o].status) IN
    /\ payments' = (IF was_paid THEN MarkRefunded(o) ELSE payments)
    /\ stock_qty' = StockAfterRestore(orders[o].items)
    /\ active' = ActiveAfterRestoreAll(orders[o].items)
    /\ orders' = [orders EXCEPT ![o].status = CancelStatus(was_paid),
                                ![o].refunded_at = IF was_paid THEN TRUE ELSE @,
                                ![o].cancelled_at = TRUE]
    /\ deactivated_by' = DeactivatedAfterRestore(orders[o].items)
    /\ UNCHANGED <<name, price_cents, cartExists, cart, cartDup, lock, req, decr,
                   invoices, accounts, reset_tokens, threads, products, carts, cart_items>>

\* POST /orders/{order_id}/cancel
cancel_order(u, o) ==
    IF cancel_order_code(u, o) # 200 THEN NoWrite ELSE CancelWrites(o)

\* POST /admin/orders/{order_id}/cancel
admin_cancel_order(o) ==
    IF admin_cancel_order_code(o) # 200 THEN NoWrite ELSE CancelWrites(o)

\* admin_refund_order: the HTTP answer
admin_refund_order_code(o) ==
    IF ~Existing(o) THEN 404
    ELSE IF ~CanRefund(orders[o].status) THEN 400
    ELSE IF PaymentsOf(o) = {} THEN 400
    ELSE 200

\* POST /admin/orders/{order_id}/refund
admin_refund_order(o) ==
    IF admin_refund_order_code(o) # 200
    THEN NoWrite
    ELSE /\ stock_qty' = StockAfterRestore(orders[o].items)
         /\ active' = ActiveAfterRestoreAll(orders[o].items)
         /\ orders' = [orders EXCEPT ![o].status = "REMBOURSEE", ![o].refunded_at = TRUE]
         /\ payments' = MarkRefunded(o)
         /\ deactivated_by' = DeactivatedAfterRestore(orders[o].items)
         /\ UNCHANGED <<name, price_cents, cartExists, cart, cartDup, lock, req, decr,
                        invoices, accounts, reset_tokens, threads, products, carts, cart_items>>

\* ------------------------------------------------- order reads and invoices
\* get_order / get_invoice / download_invoice_pdf / get_order_tracking:
\* not (not order or str(order.user_id) != uid)
Visible(u, o) == Existing(o) /\ orders[o].user_id = u

\* HTTPException(404, "Commande introuvable")
NotFound == [code |-> 404, detail |-> "Commande introuvable"]

\* get_order: the answer (OrderOut)
get_order_answer(u, o) ==
    IF ~Visible(u, o) THEN NotFound
    ELSE [code |-> 200, detail |-> [id |-> o, status |-> orders[o].status,
                                    items |-> orders[o].items,
                                    total_cents |-> total_cents(orders[o].items),
                                    delivery |-> orders[o].delivery]]

\* GET /orders/{order_id}
get_order(u, o) == NoWrite

\* str(uuid.uuid4()) of the invoice row created i-th, character by character
uuid_str(i) ==
    IF i = 1
    THEN <<"3", "f", "a", "8", "5", "f", "6", "4", "-", "5", "7", "1", "7", "-", "4", "5", "6", "2",
           "-", "b", "3", "f", "c", "-", "2", "c", "9", "6", "3", "f", "6", "6", "a", "f", "a", "6">>
    ELSE <<"0", "b", "e", "d", "7", "c", "1", "9", "-", "e", "2", "a", "0", "-", "4", "c", "1", "1",
           "-", "9", "d", "4", "4", "-", "a", "7", "7", "0", "5", "e", "1", "b", "c", "2", "d", "8">>

\* str.upper() on one character of a UUID
upper_char(c) ==
    IF c = "a" THEN "A" ELSE IF c = "b" THEN "B" ELSE IF c = "c" THEN "C"
    ELSE IF c = "d" THEN "D" ELSE IF c = "e" THEN "E" ELSE IF c = "f" THEN "F" ELSE c

\* f"INV-{str(invoice.id)[:8].upper()}"
invoice_number(id) ==
    <<"I", "N", "V", "-">> \o [k \in 1..8 |-> upper_char(SubSeq(uuid_str(id), 1, 8)[k])]

\* Rows of the invoices table for the order
InvoicesOf(o) == {i \in DOMAIN invoices : invoices[i].order_id = o}

\* PostgreSQLInvoiceRepository.get_by_order_id: query(...).first(), the oldest row of the
\* order; 0 = None
invoice_get_by_order_id(o) == IF InvoicesOf(o) = {} THEN 0 ELSE First(InvoicesOf(o))

\* get_invoice / download_invoice_pdf: invoice_data for a new row
NewInvoice(o) == [order_id |-> o, total_cents |-> total_cents(orders[o].items)]

\* get_invoice / download_invoice_pdf: the invoice the handler goes on with, as
\* [id, total_cents]: the row found, or the row it creates
InvoiceUsed(o) ==
    IF invoice_get_by_order_id(o) # 0
    THEN [id |-> invoice_get_by_order_id(o),
          total_cents |-> invoices[invoice_get_by_order_id(o)].total_cents]
    ELSE [id |-> Len(invoices) + 1, total_cents |-> NewInvoice(o).total_cents]

\* get_invoice: the answer (InvoiceOut); total_cents is the invoice row's column, the
\* lines are the order's current lines
get_invoice_answer(u, o) ==
    IF ~Visible(u, o) THEN NotFound
    ELSE [code |-> 200, detail |-> [order_id |-> o,
                                    number |-> invoice_number(InvoiceUsed(o).id),
                                    lines |-> orders[o].items,
                                    total_cents |-> InvoiceUsed(o).total_cents]]

\* GET /orders/{order_id}/invoice: the invoice row is created on first request
get_invoice(u, o) ==
    IF get_invoice_answer(u, o).code # 200
    THEN NoWrite
    ELSE /\ invoices' = (IF invoice_get_by_order_id(o) = 0
                         THEN Append(invoices, NewInvoice(o))
                         ELSE invoices)
         /\ UNCHANGED <<name, price_cents, stock_qty, active, cartExists, cart, cartDup,
                        orders, payments, accounts, reset_tokens, threads,
                        products, carts, cart_items, lock, req, decr, deactivated_by>>

\* download_invoice_pdf: the answer; generate_invoice_pdf adds up the lines it prints
download_invoice_pdf_answer(u, o) ==
    IF ~Visible(u, o) THEN NotFound
    ELSE [code |-> 200, detail |-> [order_id |-> o,
                                    number |-> invoice_number(InvoiceUsed(o).id),
                                    lines |-> orders[o].items,
                                    total_cents |-> total_cents(orders[o].items)]]

\* GET /orders/{order_id}/invoice/download: creates the invoice row as get_invoice does
download_invoice_pdf(u, o) == get_invoice(u, o)

\* get_order_tracking: the answer (DeliveryOut)
get_order_tracking_answer(u, o) ==
    IF ~Visible(u, o) THEN NotFound
    ELSE IF orders[o].delivery = None
    THEN [code |-> 404, detail |-> "Informations de livraison non disponibles"]
    ELSE [code |-> 200, detail |-> orders[o].delivery]

\* GET /orders/{order_id}/tracking
get_order_tracking(u, o) == NoWrite

\* ------------------------------------------------------------ require_admin
\* require_admin: the answer of the dependency (200 = the endpoint body runs)
require_admin_code(u) == IF ~is_admin[u] THEN 403 ELSE 200

\* An admin endpoint called by u: Depends(require_admin), then the endpoint body
require_admin(u, body) == IF require_admin_code(u) # 200 THEN NoWrite ELSE body

\* ------------------------------------------------------ admin order pipeline
\* admin_validate_order: the HTTP answer
admin_validate_order_code(o) ==
    IF ~Existing(o) THEN 404 ELSE IF ~CanValidate(orders[o].status) THEN 400 ELSE 200

\* admin_ship_order: the HTTP answer
admin_ship_order_code(o) ==
    IF ~Existing(o) THEN 404 ELSE IF ~CanShip(orders[o].status) THEN 400 ELSE 200

\* admin_mark_delivered: the HTTP answer
admin_mark_delivered_code(o) ==
    IF ~Existing(o) THEN 404 ELSE IF ~CanDeliver(orders[o].status) THEN 400 ELSE 200

\* POST /admin/orders/{order_id}/validate
admin_validate_order(o) ==
    IF admin_validate_order_code(o) # 200
    THEN NoWrite
    ELSE /\ orders' = [orders EXCEPT ![o].status = "VALIDEE", ![o].validated_at = TRUE]
         /\ UNCHANGED <<name, price_cents, stock_qty, active, cartExists, cart, cartDup,
                        payments, lock, req, decr, deactivated_by, invoices, accounts, reset_tokens, threads,
                        products, carts, cart_items>>

\* POST /admin/orders/{order_id}/ship
admin_ship_order(o, delivery_status) ==
    IF admin_ship_order_code(o) # 200
    THEN NoWrite
    ELSE /\ orders' = [orders EXCEPT ![o].status = "EXPEDIEE", ![o].shipped_at = TRUE,
                                     ![o].delivery = delivery_status]
         /\ UNCHANGED <<name, price_cents, stock_qty, active, cartExists, cart, cartDup,
                        payments, lock, req, decr, deactivated_by, invoices, accounts, reset_tokens, threads,
                        products, carts, cart_items>>

\* POST /admin/orders/{order_id}/mark-delivered
admin_mark_delivered(o) ==
    IF admin_mark_delivered_code(o) # 200
    THEN NoWrite
    ELSE /\ orders' = [orders EXCEPT ![o].status = "LIVREE", ![o].delivered_at = TRUE,
                                     ![o].delivery = IF @ # None THEN "LIVREE" ELSE @]
         /\ UNCHANGED <<name, price_cents, stock_qty, active, cartExists, cart, cartDup,
                        payments, lock, req, decr, deactivated_by, invoices, accounts, reset_tokens, threads,
                        products, carts, cart_items>>

\* ------------------------------------------------------------ admin catalog
\* str.strip() on the names a request may carry
Strip(n) == IF n = " n2 " THEN "n2" ELSE IF n = "  " THEN "" ELSE n

\* admin_update_product: the HTTP answer; None / -1 stand for a field the request omits,
\* so a negative price or stock in a request is a number below -1
admin_update_product_code(p, in_name, in_price, in_stock, in_active) ==
    IF p \notin Products THEN 404
    ELSE IF in_name # None /\ (in_name = "" \/ Strip(in_name) = "") THEN 400
    ELSE IF in_price # -1 /\ in_price < 0 THEN 400
    ELSE IF in_stock # -1 /\ in_stock < 0 THEN 400
    ELSE 200

\* admin_update_product: a request with active false records the product as switched off
\* by the admin, one with active true as active
DeactivatedAfterUpdate(p, in_active) ==
    [deactivated_by EXCEPT ![p] = IF in_active = "false" THEN "admin"
                                  ELSE IF in_active = "true" THEN None ELSE @]

\* Fault-seeded variant: an update that also rewrites the name and price on the order
\* lines that reference the product
AdminUpdateProductCascade(p, in_name, in_price, in_stock, in_active) ==
    IF admin_update_product_code(p, in_name, in_price, in_stock, in_active) # 200
    THEN NoWrite
    ELSE /\ name' = [name EXCEPT ![p] = IF in_name # None THEN Strip(in_name) ELSE @]
         /\ price_cents' = [price_cents EXCEPT ![p] = IF in_price # -1 THEN in_price ELSE @]
         /\ stock_qty' = [stock_qty EXCEPT ![p] = IF in_stock # -1 THEN in_stock ELSE @]
         /\ active' = [active EXCEPT ![p] = IF in_active # None THEN in_active = "true" ELSE @]
         /\ cart' = (IF active[p] /\ in_active = "false"
                     THEN [u \in Users |-> [cart[u] EXCEPT ![p] = 0]]
                     ELSE cart)
         /\ orders' = [o \in DOMAIN orders |->
                          IF orders[o].items[p].quantity > 0
                          THEN [orders[o] EXCEPT !.items[p].name = name'[p],
                                                 !.items[p].unit_price_cents = price_cents'[p]]
                          ELSE orders[o]]
         /\ deactivated_by' = DeactivatedAfterUpdate(p, in_active)
         /\ UNCHANGED <<cartExists, cartDup, payments, lock, req, decr,
                        invoices, accounts, reset_tokens, threads, products, carts, cart_items>>

\* PUT /admin/products/{product_id}
admin_update_product(p, in_name, in_price, in_stock, in_active) ==
    IF admin_update_product_code(p, in_name, in_price, in_stock, in_active) # 200
    THEN NoWrite
    ELSE /\ name' = [name EXCEPT ![p] = IF in_name # None THEN Strip(in_name) ELSE @]
         /\ price_cents' = [price_cents EXCEPT ![p] = IF in_price # -1 THEN in_price ELSE @]
         /\ stock_qty' = [stock_qty EXCEPT ![p] = IF in_stock # -1 THEN in_stock ELSE @]
         /\ active' = [active EXCEPT ![p] = IF in_active # None THEN in_active = "true" ELSE @]
         /\ cart' = (IF active[p] /\ in_active = "false"
                     THEN [u \in Users |-> [cart[u] EXCEPT ![p] = 0]]
                     ELSE cart)
         /\ deactivated_by' = DeactivatedAfterUpdate(p, in_active)
         /\ UNCHANGED <<cartExists, cartDup, orders, payments, lock, req, decr,
                        invoices, accounts, reset_tokens, threads, products, carts, cart_items>>

\* PostgreSQLProductRepository.reserve_stock; the guard on the result keeps the stock
\* within the bounds of the model
reserve_stock(p, quantity) ==
    IF p \notin Products \/ stock_qty[p] < quantity
    THEN NoWrite
    ELSE /\ stock_qty[p] - quantity \in -MaxQty..MaxStock
         /\ stock_qty' = [stock_qty EXCEPT ![p] = @ - quantity]
         /\ UNCHANGED <<name, price_cents, active, cartExists, cart, cartDup, orders, payments,
                        lock, req, decr, deactivated_by, invoices, accounts, reset_tokens, threads,
                        products, carts, cart_items>>

\* PostgreSQLProductRepository.release_stock; the guard on the result keeps the stock
\* within the bounds of the model
release_stock(p, quantity) ==
    IF p \notin Products
    THEN NoWrite
    ELSE /\ stock_qty[p] + quantity \in -MaxQty..MaxStock
         /\ stock_qty' = [stock_qty EXCEPT ![p] = @ + quantity]
         /\ UNCHANGED <<name, price_cents, active, cartExists, cart, cartDup, orders, payments,
                        lock, req, decr, deactivated_by, invoices, accounts, reset_tokens, threads,
                        products, carts, cart_items>>

\* Product ids a request may name: those of the catalog and one that does not exist
ProductIds == Products \cup {"px"}

\* Requests served one at a time; any caller may try an admin endpoint. The admin edits
\* here the stock or the active flag.
Next ==
    \/ \E u \in Users, p \in ProductIds, q \in 1..MaxQty : add_to_cart(u, p, q)
    \/ \E u \in Users, p \in ProductIds, q \in 0..MaxQty : remove_from_cart(u, p, q)
    \/ \E u \in Users : clear_cart(u)
    \/ \E u \in Users : view_cart(u)
    \/ \E u \in Users : checkout(u)
    \/ TimePasses
    \/ \E u \in Users, o \in OrderIds, card \in Cards : pay_order(u, o, card)
    \/ \E u \in Users, o \in OrderIds : cancel_order(u, o)
    \/ \E u \in Users, o \in OrderIds : get_order(u, o)
    \/ \E u \in Users, o \in OrderIds : get_invoice(u, o)
    \/ \E u \in Users, o \in OrderIds : download_invoice_pdf(u, o)
    \/ \E u \in Users, o \in OrderIds : get_order_tracking(u, o)
    \/ \E a \in Callers, o \in OrderIds : require_admin(a, admin_cancel_order(o))
    \/ \E a \in Callers, o \in OrderIds : require_admin(a, admin_refund_order(o))
    \/ \E a \in Callers, o \in OrderIds : require_admin(a, admin_validate_order(o))
    \/ \E a \in Callers, o \in OrderIds : require_admin(a, admin_ship_order(o, "PREPAREE"))
    \/ \E a \in Callers, o \in OrderIds : require_admin(a, admin_mark_delivered(o))
    \/ \E a \in Callers, p \in Products, s \in 0..MaxStock :
            require_admin(a, admin_update_product(p, None, -1, s, None))
    \/ \E a \in Callers, p \in Products, f \in {"true", "false"} :
            require_admin(a, admin_update_product(p, None, -1, -1, f))

Spec == Init /\ [][Next]_vars

\* The same requests without the admin's edits of products: the stock is written by
\* payment, cancellation and refund only
NextShop ==
    \/ \E u \in Users, p \in ProductIds, q \in 1..MaxQty : add_to_cart(u, p, q)
    \/ \E u \in Users, p \in ProductIds, q \in 0..MaxQty : remove_from_cart(u, p, q)
    \/ \E u \in Users : clear_cart(u)
    \/ \E u \in Users : view_cart(u)
    \/ \E u \in Users : checkout(u)
    \/ TimePasses
    \/ \E u \in Users, o \in OrderIds, card \in Cards : pay_order(u, o, card)
    \/ \E u \in Users, o \in OrderIds : cancel_order(u, o)
    \/ \E a \in Callers, o \in OrderIds : require_admin(a, admin_cancel_order(o))
    \/ \E a \in Callers, o \in OrderIds : require_admin(a, admin_refund_order(o))
    \/ \E a \in Callers, o \in OrderIds : require_admin(a, admin_validate_order(o))
    \/ \E a \in Callers, o \in OrderIds : require_admin(a, admin_ship_order(o, "PREPAREE"))
    \/ \E a \in Callers, o \in OrderIds : require_admin(a, admin_mark_delivered(o))

ShopSpec == Init /\ [][NextShop]_vars

\* ------------------------------------------------- accounts and reset tokens
\* The variables of the shop, which the AuthService calls leave alone
shopvars == <<name, price_cents, stock_qty, active, cartExists, cart, cartDup, orders, payments,
              invoices, threads, products, carts, cart_items, lock, req, decr, deactivated_by>>

\* PostgreSQLUserRepository.get_by_email: the row of the user with that email; 0 = None
get_by_email(email) ==
    IF \E i \in DOMAIN accounts : accounts[i].email = email
    THEN CHOOSE i \in DOMAIN accounts :
            accounts[i].email = email /\ \A j \in 1..(i - 1) : accounts[j].email # email
    ELSE 0

\* AuthService.register: what the call gives back
register_result(email, password) ==
    LET existing_user == get_by_email(email) IN
    IF existing_user # 0
    THEN IF verify_password(password, accounts[existing_user].password_hash)
         THEN "existing user"
         ELSE "Email déjà utilisé."
    ELSE "new user"

\* AuthService.register(email, password, ...), with the salt hash_password draws
register(email, password, salt) ==
    IF register_result(email, password) # "new user"
    THEN NoWrite
    ELSE /\ accounts' = Append(accounts, [email |-> email,
                                          password_hash |-> hash_password(password, salt),
                                          is_admin |-> FALSE])
         /\ UNCHANGED <<shopvars, reset_tokens>>

\* AuthService.generate_reset_token: a fresh random token (its value is modelled by the
\* row's index), valid for one hour; deleted marks a row cleanup_expired_tokens removed
generate_reset_token(email) ==
    IF get_by_email(email) = 0
    THEN NoWrite
    ELSE /\ Len(reset_tokens) < MaxTokens
         /\ reset_tokens' = Append(reset_tokens, [user_id |-> get_by_email(email), used |-> FALSE,
                                                  expired |-> FALSE, deleted |-> FALSE])
         /\ UNCHANGED <<shopvars, accounts>>

\* AuthService.verify_reset_token: the user of the token; 0 = None
verify_reset_token(t) ==
    IF /\ t \in DOMAIN reset_tokens
       /\ ~reset_tokens[t].deleted
       /\ ~reset_tokens[t].used
       /\ ~reset_tokens[t].expired
    THEN reset_tokens[t].user_id
    ELSE 0

\* AuthService.reset_password: what the call returns
reset_password_result(t) == verify_reset_token(t) # 0

\* AuthService.reset_password(token, new_password), with the salt hash_password draws
reset_password(t, new_password, salt) ==
    IF ~reset_password_result(t)
    THEN NoWrite
    ELSE /\ accounts' = [accounts EXCEPT ![verify_reset_token(t)].password_hash =
                                             hash_password(new_password, salt)]
         /\ reset_tokens' = [reset_tokens EXCEPT ![t].used = TRUE]
         /\ UNCHANGED shopvars

\* Time passes: the oldest token still within its hour reaches expires_at.
TokenExpires ==
    /\ \E t \in DOMAIN reset_tokens :
        /\ ~reset_tokens[t].expired
        /\ \A x \in 1..(t - 1) : reset_tokens[x].expired
        /\ reset_tokens' = [reset_tokens EXCEPT ![t].expired = TRUE]
    /\ UNCHANGED <<shopvars, accounts>>

\* AuthService.cleanup_expired_tokens: deletes the rows past expires_at (a used row older
\* than a day is past its hour as well)
cleanup_expired_tokens ==
    /\ reset_tokens' = [t \in DOMAIN reset_tokens |->
                            IF reset_tokens[t].expired
                            THEN [reset_tokens[t] EXCEPT !.deleted = TRUE]
                            ELSE reset_tokens[t]]
    /\ UNCHANGED <<shopvars, accounts>>

\* Tokens a caller may present: those issued so far and one never issued
TokenIds == 1..(MaxTokens + 1)

\* Calls of the AuthService, one at a time, from the seeded users table.
NextAuth ==
    \/ \E email \in Emails, password \in Passwords, salt \in Salts : register(email, password, salt)
    \/ \E email \in Emails : generate_reset_token(email)
    \/ \E t \in TokenIds, password \in Passwords, salt \in Salts : reset_password(t, password, salt)
    \/ TokenExpires
    \/ cleanup_expired_tokens

AuthSpec == Init /\ [][NextAuth]_vars

\* ------------------------------------------------------------ validate_luhn
\* Fault-seeded variant: a doubled digit above 9 is kept as it is
LuhnDoubledNoWrap(d) == 2 * d

\* validate_luhn: a doubled digit, less 9 when it exceeds 9
LuhnDoubled(d) == IF 2 * d > 9 THEN 2 * d - 9 ELSE 2 * d

\* validate_luhn: the total, from the rightmost digit leftward, doubling every second digit
RECURSIVE LuhnTotal(_, _)
LuhnTotal(digits, second) ==
    IF digits = <<>> THEN 0
    ELSE (IF second THEN LuhnDoubled(digits[Len(digits)]) ELSE digits[Len(digits)])
         + LuhnTotal(SubSeq(digits, 1, Len(digits) - 1), ~second)

\* validate_luhn: every digit of the string is the same
AllIdentical(digits) == \A i \in DOMAIN digits : digits[i] = digits[1]

\* validate_luhn(digits), digits a string of decimal digits
validate_luhn(digits) ==
    /\ digits # <<>>
    /\ ~AllIdentical(digits)
    /\ LuhnTotal(digits, FALSE) % 10 = 0

\* The card numbers of test_validate_luhn_valid_cards and test_validate_luhn_invalid_cards
\* that have 16 digits
LuhnTestCards ==
    {<<4, 1, 1, 1, 1, 1, 1, 1, 1, 1, 1, 1, 1, 1, 1, 1>>,
     <<4, 2, 4, 2, 4, 2, 4, 2, 4, 2, 4, 2, 4, 2, 4, 2>>,
     <<5, 5, 5, 5, 5, 5, 5, 5, 5, 5, 5, 5, 4, 4, 4, 4>>,
     <<4, 1, 1, 1, 1, 1, 1, 1, 1, 1, 1, 1, 1, 1, 1, 0>>,
     <<0, 0, 0, 0, 0, 0, 0, 0, 0, 0, 0, 0, 0, 0, 0, 0>>,
     <<1, 1, 1, 1, 1, 1, 1, 1, 1, 1, 1, 1, 1, 1, 1, 1>>}

\* Digit strings validate_luhn is called with: every string of at most MaxDigits digits
\* (the empty string among them) and the test cards
LuhnInputs == UNION {[1..n -> 0..9] : n \in 0..MaxDigits} \cup LuhnTestCards

\* A call validate_luhn(digits): the slot r1 records the argument and the result
LuhnCall(digits) ==
    /\ req["r1"].pc = "idle"
    /\ req' = [req EXCEPT !["r1"] = [IdleReq EXCEPT !.kind = "luhn", !.pc = "done",
                                                    !.card = digits,
                                                    !.code = IF validate_luhn(digits) THEN 1 ELSE 0]]
    /\ UNCHANGED <<dbvars, lock, decr, deactivated_by>>

NextLuhn == \E digits \in LuhnInputs : LuhnCall(digits)

LuhnSpec == Init /\ [][NextLuhn]_vars

\* ---------------------------------------------------------- support threads
\* The variables the support endpoints leave alone
nonthreadvars == <<name, price_cents, stock_qty, active, cartExists, cart, cartDup, orders,
                   payments, invoices, accounts, reset_tokens, products, carts, cart_items,
                   lock, req, decr, deactivated_by>>

\* Thread ids a request may name: those created so far and one never created
ThreadIds == 1..(MaxThreads + 1)

\* Fault-seeded variant: post_support_message without the test of thread.closed
PostSupportMessageCodeClosedBlind(u, t, content) ==
    IF content = "invalid" THEN 422
    ELSE IF t \notin DOMAIN threads \/ threads[t].user_id # u THEN 404
    ELSE 200

\* create_support_thread: the HTTP answer; ThreadCreateIn.validate_subject refuses the subject
create_support_thread_code(subject) == IF subject = "invalid" THEN 422 ELSE 200

\* POST /support/threads: the thread starts open and without messages
create_support_thread(u, subject) ==
    IF create_support_thread_code(subject) # 200
    THEN NoWrite
    ELSE /\ Len(threads) < MaxThreads
         /\ threads' = Append(threads, [user_id |-> u, closed |-> FALSE, messages |-> <<>>])
         /\ UNCHANGED nonthreadvars

\* post_support_message: the HTTP answer; MessageCreateIn.validate_content runs before
\* the handler
post_support_message_code(u, t, content) ==
    IF content = "invalid" THEN 422
    ELSE IF t \notin DOMAIN threads \/ threads[t].user_id # u THEN 404
    ELSE IF threads[t].closed THEN 400
    ELSE 200

\* PostgreSQLThreadRepository.add_message: a message is stored with its author
\* (None = written by the support)
add_message(t, author_user_id) ==
    /\ Len(threads[t].messages) < MaxMessages
    /\ threads' = [threads EXCEPT ![t].messages = Append(@, author_user_id)]
    /\ UNCHANGED nonthreadvars

\* POST /support/threads/{thread_id}/messages
post_support_message(u, t, content) ==
    IF post_support_message_code(u, t, content) # 200 THEN NoWrite ELSE add_message(t, u)

\* POST /support/threads/{thread_id}/mark-read: answers 404 or {"ok": true}, writes nothing
mark_support_thread_as_read(u, t) == NoWrite

\* admin_close_support_thread: the HTTP answer
admin_close_support_thread_code(t) == IF t \notin DOMAIN threads THEN 404 ELSE 200

\* POST /admin/support/threads/{thread_id}/close
admin_close_support_thread(t) ==
    IF admin_close_support_thread_code(t) # 200
    THEN NoWrite
    ELSE /\ threads' = [threads EXCEPT ![t].closed = TRUE]
         /\ UNCHANGED nonthreadvars

\* admin_post_support_message: the HTTP answer
admin_post_support_message_code(t, content) ==
    IF content = "invalid" THEN 422
    ELSE IF t \notin DOMAIN threads THEN 404
    ELSE 200

\* POST /admin/support/threads/{thread_id}/messages
admin_post_support_message(t, content) ==
    IF admin_post_support_message_code(t, content) # 200 THEN NoWrite ELSE add_message(t, None)

\* Requests to the support endpoints, served one at a time.
NextSupport ==
    \/ \E u \in Users, subject \in {"valid", "invalid"} : create_support_thread(u, subject)
    \/ \E u \in Users, t \in ThreadIds, content \in {"valid", "invalid"} :
            post_support_message(u, t, content)
    \/ \E u \in Users, t \in ThreadIds : mark_support_thread_as_read(u, t)
    \/ \E a \in Callers, t \in ThreadIds : require_admin(a, admin_close_support_thread(t))
    \/ \E a \in Callers, t \in ThreadIds, content \in {"valid", "invalid"} :
            require_admin(a, admin_post_support_message(t, content))

SupportSpec == Init /\ [][NextSupport]_vars

\* ---------------------------------------------------------- payment forms
\* Carts, checkout, and payment requests with any form.
NextPayForm ==
    \/ \E u \in Users, p \in Products, q \in 1..MaxQty : add_to_cart(u, p, q)
    \/ \E u \in Users : checkout(u)
    \/ \E u \in Users, o \in OrderIds, form \in Forms : pay_order_form(u, o, form)
    \/ \E u \in Users, o \in OrderIds : cancel_order(u, o)

PayFormSpec == Init /\ [][NextPayForm]_vars

\* ------------------------------------------- requests in flight: shared parts
\* The request's transaction ends (commit, rollback or session close): its row locks go.
Release(r) == [p \in Products |-> IF lock[p] = r THEN None ELSE lock[p]]

\* The request returns with the given HTTP status.
Finish(r, code) == [req EXCEPT ![r].pc = "done", ![r].code = code]

\* Quantity a query for the cart line of (u, p) followed by .first() may return:
\* 0 without a cart or a line, else the quantity of either row when two rows exist.
RowsQty(u, p) ==
    IF ~cartExists[u] THEN {0}
    ELSE IF cartDup[u][p] > 0 THEN {cart[u][p], cartDup[u][p]}
    ELSE {cart[u][p]}

\* Row that query returns: 0 = none, 1 = the first row, 2 = the second row
FoundRows(u, p) ==
    IF cart[u][p] = 0 THEN {0}
    ELSE IF cartDup[u][p] > 0 THEN {1, 2}
    ELSE {1}

\* ---------------------------------------- add_to_cart, statement by statement
\* Sequential history before the two requests arrive: the admin has set the stock,
\* a user may have a cart and, in it, a line for the product.
InitAdd ==
    /\ name = [p \in Products |-> "n1"]
    /\ price_cents = [p \in Products |-> IF p = "p1" THEN 1 ELSE 2]
    /\ stock_qty \in [Products -> 0..MaxStock]
    /\ active = [p \in Products |-> TRUE]
    /\ cartExists \in [Users -> BOOLEAN]
    /\ cart \in [Users -> [Products -> 0..MaxStock]]
    /\ \A u \in Users, p \in Products : cart[u][p] > 0 => cartExists[u] /\ cart[u][p] <= stock_qty[p]
    /\ cartDup = [u \in Users |-> [p \in Products |-> 0]]
    /\ orders = <<>>
    /\ payments = <<>>
    /\ InitTables
    /\ InitIdle

\* The request arrives.
AddStart(r, u, p, q) ==
    /\ req[r].pc = "idle"
    /\ req' = [req EXCEPT ![r] = [IdleReq EXCEPT !.kind = "add", !.pc = "lock", !.user = u,
                                                 !.product = p, !.qty = q]]
    /\ UNCHANGED <<dbvars, lock, decr, deactivated_by>>

\* db.query(Product)...with_for_update().first(): waits while another transaction holds
\* the row; an inactive product is refused
AddLock(r) ==
    LET p == req[r].product IN
    /\ req[r].kind = "add" /\ req[r].pc = "lock"
    /\ lock[p] = None
    /\ IF ~active[p]
       THEN req' = Finish(r, 400) /\ UNCHANGED lock
       ELSE /\ lock' = [lock EXCEPT ![p] = r]
            /\ req' = [req EXCEPT ![r].pc = "check"]
    /\ UNCHANGED <<dbvars, decr, deactivated_by>>

\* quantity_in_cart is read and total_quantity compared with product.stock_qty
AddCheck(r) ==
    LET u == req[r].user
        p == req[r].product
    IN
    /\ req[r].kind = "add" /\ req[r].pc = "check"
    /\ \E held \in RowsQty(u, p) :
        IF ExceedsStock(held, req[r].qty, stock_qty[p])
        THEN req' = Finish(r, 400) /\ lock' = Release(r)
        ELSE req' = [req EXCEPT ![r].pc = "cart", ![r].seen = held] /\ UNCHANGED lock
    /\ UNCHANGED <<dbvars, decr, deactivated_by>>

\* add_item: cart = self.get_by_user_id(user_id)
AddReadCart(r) ==
    /\ req[r].kind = "add" /\ req[r].pc = "cart"
    /\ req' = [req EXCEPT ![r].pc = IF cartExists[req[r].user] THEN "find" ELSE "create"]
    /\ UNCHANGED <<dbvars, lock, decr, deactivated_by>>

\* add_item: create_cart inserts the carts row and commits, which ends the transaction
\* that holds the product row; carts.user_id is unique, so a second insert fails
AddCreateCart(r) ==
    LET u == req[r].user IN
    /\ req[r].kind = "add" /\ req[r].pc = "create"
    /\ IF cartExists[u]
       THEN req' = Finish(r, 400) /\ UNCHANGED cartExists
       ELSE /\ cartExists' = [cartExists EXCEPT ![u] = TRUE]
            /\ req' = [req EXCEPT ![r].pc = "find"]
    /\ lock' = Release(r)
    /\ UNCHANGED <<name, price_cents, stock_qty, active, cart, cartDup, orders, payments,
                   decr, deactivated_by,
                   invoices, accounts, reset_tokens, threads, products, carts, cart_items>>

\* add_item: existing_item = query(CartItem)...first()
AddFind(r) ==
    LET u == req[r].user
        p == req[r].product
    IN
    /\ req[r].kind = "add" /\ req[r].pc = "find"
    /\ \E row \in FoundRows(u, p) :
        req' = [req EXCEPT ![r].pc = "write", ![r].row = row,
                           ![r].seen = IF row = 0 THEN 0 ELSE IF row = 1 THEN cart[u][p]
                                       ELSE cartDup[u][p]]
    /\ UNCHANGED <<dbvars, lock, decr, deactivated_by>>

\* add_item: existing_item.quantity += quantity, or a new CartItem row; commit
AddWrite(r) ==
    LET u == req[r].user
        p == req[r].product
        q == req[r].qty
    IN
    /\ req[r].kind = "add" /\ req[r].pc = "write"
    /\ IF req[r].row = 1
       THEN cart' = [cart EXCEPT ![u][p] = req[r].seen + q] /\ UNCHANGED cartDup
       ELSE IF req[r].row = 2
       THEN cartDup' = [cartDup EXCEPT ![u][p] = req[r].seen + q] /\ UNCHANGED cart
       ELSE IF cart[u][p] = 0
       THEN cart' = [cart EXCEPT ![u][p] = q] /\ UNCHANGED cartDup
       ELSE cartDup' = [cartDup EXCEPT ![u][p] = @ + q] /\ UNCHANGED cart
    /\ lock' = Release(r)
    /\ req' = [req EXCEPT ![r].pc = "final"]
    /\ UNCHANGED <<name, price_cents, stock_qty, active, cartExists, orders, payments,
                   decr, deactivated_by,
                   invoices, accounts, reset_tokens, threads, products, carts, cart_items>>

\* Final check: the line is read again; db.rollback() comes after add_item's commit and
\* undoes nothing; the request is answered 400 or 200
AddFinal(r) ==
    LET u == req[r].user
        p == req[r].product
    IN
    /\ req[r].kind = "add" /\ req[r].pc = "final"
    /\ \E fin \in RowsQty(u, p) :
        req' = Finish(r, IF fin > stock_qty[p] THEN 400 ELSE 200)
    /\ lock' = Release(r)
    /\ UNCHANGED <<dbvars, decr, deactivated_by>>

NextAdd ==
    \/ \E r \in Reqs, u \in Users, p \in Products, q \in 1..MaxQty : AddStart(r, u, p, q)
    \/ \E r \in Reqs : AddLock(r)
    \/ \E r \in Reqs : AddCheck(r)
    \/ \E r \in Reqs : AddReadCart(r)
    \/ \E r \in Reqs : AddCreateCart(r)
    \/ \E r \in Reqs : AddFind(r)
    \/ \E r \in Reqs : AddWrite(r)
    \/ \E r \in Reqs : AddFinal(r)

AddSpec == InitAdd /\ [][NextAdd]_vars

\* ------------------------------------------ pay_order, statement by statement
\* Sequential history before the two requests arrive: a user has filled a cart and
\* checked out (one CREE order with the cart's lines); the admin has set the stock.
InitPay ==
    /\ name = [p \in Products |-> "n1"]
    /\ price_cents = [p \in Products |-> IF p = "p1" THEN 1 ELSE 2]
    /\ stock_qty \in [Products -> 0..MaxStock]
    /\ active = [p \in Products |-> TRUE]
    /\ \E u \in Users, c \in [Products -> 0..MaxQty] :
        /\ \E p \in Products : c[p] > 0
        /\ cartExists = [x \in Users |-> x = u]
        /\ cart = [x \in Users |-> IF x = u THEN c ELSE [p \in Products |-> 0]]
        /\ orders = <<[NewOrder(u) EXCEPT !.items =
                        [p \in Products |->
                            IF c[p] > 0
                            THEN [quantity |-> c[p], unit_price_cents |-> price_cents[p],
                                  name |-> name[p]]
                            ELSE NoLine]]>>
    /\ cartDup = [u \in Users |-> [p \in Products |-> 0]]
    /\ payments = <<>>
    /\ InitTables
    /\ InitIdle

\* Index in ProductSeq of the order's next line after index i; 0 when there is none
NextLine(items, i) ==
    IF \E j \in (i + 1)..Len(ProductSeq) : items[ProductSeq[j]].quantity > 0
    THEN CHOOSE j \in (i + 1)..Len(ProductSeq) :
            /\ items[ProductSeq[j]].quantity > 0
            /\ \A k \in (i + 1)..(j - 1) : items[ProductSeq[k]].quantity = 0
    ELSE 0

\* The request arrives.
PayStart(r, u, o, card) ==
    /\ req[r].pc = "idle"
    /\ req' = [req EXCEPT ![r] = [IdleReq EXCEPT !.kind = "pay", !.pc = "check", !.user = u,
                                                 !.order = o, !.card = card]]
    /\ UNCHANGED <<dbvars, lock, decr, deactivated_by>>

\* The order is read: ownership, status and the payment form are checked; the gateway
\* is then called with the card
PayCheck(r) ==
    LET code == pay_order_code(req[r].user, req[r].order, req[r].card) IN
    /\ req[r].kind = "pay" /\ req[r].pc = "check"
    /\ req' = IF code \in {404, 400, 422} THEN Finish(r, code) ELSE [req EXCEPT ![r].pc = "record"]
    /\ UNCHANGED <<dbvars, lock, decr, deactivated_by>>

\* payment_repo.create(payment_data_dict): the payment row is committed; a declined
\* card is answered 402
PayRecord(r) ==
    LET o == req[r].order IN
    /\ req[r].kind = "pay" /\ req[r].pc = "record"
    /\ Len(payments) < MaxPayments
    /\ payments' = Append(payments, NewPayment(o, total_cents(orders[o].items), req[r].card = "ok"))
    /\ req' = IF req[r].card # "ok"
              THEN Finish(r, 402)
              ELSE [req EXCEPT ![r].pc = "read", ![r].pay = Len(payments) + 1,
                               ![r].idx = NextLine(orders[o].items, 0)]
    /\ UNCHANGED <<name, price_cents, stock_qty, active, cartExists, cart, cartDup, orders,
                   lock, decr, deactivated_by, invoices, accounts, reset_tokens, threads,
                   products, carts, cart_items>>

\* Stock loop: product = product_repo.get_by_id(item.product_id); current_stock is read
PayReadStock(r) ==
    /\ req[r].kind = "pay" /\ req[r].pc = "read"
    /\ req' = [req EXCEPT ![r].pc = "write", ![r].seen = stock_qty[ProductSeq[req[r].idx]]]
    /\ UNCHANGED <<dbvars, lock, decr, deactivated_by>>

\* Stock loop: product.stock_qty = new_stock, product.active = False at or under the
\* threshold, product_repo.update(product) commits
PayWriteStock(r) ==
    LET o == req[r].order
        p == ProductSeq[req[r].idx]
        new_stock == DecrementedStock(req[r].seen, orders[o].items[p].quantity)
        next == NextLine(orders[o].items, req[r].idx)
    IN
    /\ req[r].kind = "pay" /\ req[r].pc = "write"
    /\ stock_qty' = [stock_qty EXCEPT ![p] = new_stock]
    /\ active' = [active EXCEPT ![p] = IF HideAfterSale(new_stock) THEN FALSE ELSE @]
    /\ decr' = [decr EXCEPT ![o][p] = @ + 1]
    /\ deactivated_by' = [deactivated_by EXCEPT
                              ![p] = IF active[p] /\ HideAfterSale(new_stock) THEN "sale" ELSE @]
    /\ req' = [req EXCEPT ![r].pc = IF next = 0 THEN "clear" ELSE "read", ![r].idx = next]
    /\ UNCHANGED <<name, price_cents, cartExists, cart, cartDup, orders, payments, lock,
                   invoices, accounts, reset_tokens, threads, products, carts, cart_items>>

\* cart_repo.clear_cart(uid)
PayClear(r) ==
    /\ req[r].kind = "pay" /\ req[r].pc = "clear"
    /\ cart' = CartAfterClear(cart, req[r].user)
    /\ req' = [req EXCEPT ![r].pc = "status"]
    /\ UNCHANGED <<name, price_cents, stock_qty, active, cartExists, cartDup, orders, payments,
                   lock, decr, deactivated_by, invoices, accounts, reset_tokens, threads,
                   products, carts, cart_items>>

\* order.status = PAYEE; order.payment_id = payment.id; order_repo.update(order); 200
PayStatus(r) ==
    LET o == req[r].order IN
    /\ req[r].kind = "pay" /\ req[r].pc = "status"
    /\ orders' = [orders EXCEPT ![o].status = "PAYEE", ![o].payment_id = req[r].pay]
    /\ req' = Finish(r, 200)
    /\ UNCHANGED <<name, price_cents, stock_qty, active, cartExists, cart, cartDup, payments,
                   lock, decr, deactivated_by, invoices, accounts, reset_tokens, threads,
                   products, carts, cart_items>>

NextPay ==
    \/ \E r \in Reqs, u \in Users, o \in OrderIds, card \in Cards : PayStart(r, u, o, card)
    \/ \E r \in Reqs : PayCheck(r)
    \/ \E r \in Reqs : PayRecord(r)
    \/ \E r \in Reqs : PayReadStock(r)
    \/ \E r \in Reqs : PayWriteStock(r)
    \/ \E r \in Reqs : PayClear(r)
    \/ \E r \in Reqs : PayStatus(r)

PaySpec == InitPay /\ [][NextPay]_vars

\* ------------------------------------------- checkout, statement by statement
\* The request arrives.
CheckoutStart(r, u) ==
    /\ req[r].pc = "idle"
    /\ req' = [req EXCEPT ![r] = [IdleReq EXCEPT !.kind = "checkout", !.pc = "check", !.user = u]]
    /\ UNCHANGED <<dbvars, lock, decr, deactivated_by>>

\* The cart is read; every line's product is checked (exists, active, enough stock)
CheckoutCheck(r) ==
    /\ req[r].kind = "checkout" /\ req[r].pc = "check"
    /\ req' = IF checkout_code(req[r].user) # 200
              THEN Finish(r, 400)
              ELSE [req EXCEPT ![r].pc = "find"]
    /\ UNCHANGED <<dbvars, lock, decr, deactivated_by>>

\* existing_orders = order_repo.get_by_user_id(uid): a recent PAYEE order with the same
\* total is answered as it is; otherwise the first order in CREE is kept in `order`
\* (0 when there is none)
CheckoutFind(r) ==
    LET u == req[r].user IN
    /\ req[r].kind = "checkout" /\ req[r].pc = "find"
    /\ req' = IF RecentPaidSame(u) # {}
              THEN [Finish(r, 200) EXCEPT ![r].order = First(RecentPaidSame(u))]
              ELSE IF OpenOrders(u) # {}
              THEN [req EXCEPT ![r].pc = "wipe", ![r].order = First(OpenOrders(u))]
              ELSE [req EXCEPT ![r].pc = "create"]
    /\ UNCHANGED <<dbvars, lock, decr, deactivated_by>>

\* if order is None: order = order_repo.create(order_data) commits a row in CREE
CheckoutCreate(r) ==
    /\ req[r].kind = "checkout" /\ req[r].pc = "create"
    /\ Len(orders) < MaxCheckoutOrders
    /\ orders' = Append(orders, NewOrder(req[r].user))
    /\ req' = [req EXCEPT ![r].pc = "items", ![r].order = Len(orders) + 1]
    /\ UNCHANGED <<name, price_cents, stock_qty, active, cartExists, cart, cartDup, payments,
                   lock, decr, deactivated_by, invoices, accounts, reset_tokens, threads,
                   products, carts, cart_items>>

\* else: the open order's items are deleted and the deletion is committed
CheckoutWipe(r) ==
    /\ req[r].kind = "checkout" /\ req[r].pc = "wipe"
    /\ orders' = [orders EXCEPT ![req[r].order].items = NoItems]
    /\ req' = [req EXCEPT ![r].pc = "items"]
    /\ UNCHANGED <<name, price_cents, stock_qty, active, cartExists, cart, cartDup, payments,
                   lock, decr, deactivated_by, invoices, accounts, reset_tokens, threads,
                   products, carts, cart_items>>

\* for item in cart.items: order_repo.add_item(order_item_data); a line's quantity is
\* the total over the order's rows for the product
CheckoutItems(r) ==
    LET u == req[r].user
        o == req[r].order
    IN
    /\ req[r].kind = "checkout" /\ req[r].pc = "items"
    /\ orders' = [orders EXCEPT ![o].items =
                    [p \in Products |->
                        IF cart[u][p] > 0
                        THEN [quantity |-> @[p].quantity + cart[u][p],
                              unit_price_cents |-> price_cents[p], name |-> name[p]]
                        ELSE @[p]]]
    /\ req' = Finish(r, 200)
    /\ UNCHANGED <<name, price_cents, stock_qty, active, cartExists, cart, cartDup, payments,
                   lock, decr, deactivated_by, invoices, accounts, reset_tokens, threads,
                   products, carts, cart_items>>

NextPlace ==
    \/ \E u \in Users, p \in ProductIds, q \in 1..MaxQty : add_to_cart(u, p, q)
    \/ \E r \in Reqs, u \in Users : CheckoutStart(r, u)
    \/ \E r \in Reqs : CheckoutCheck(r)
    \/ \E r \in Reqs : CheckoutFind(r)
    \/ \E r \in Reqs : CheckoutCreate(r)
    \/ \E r \in Reqs : CheckoutWipe(r)
    \/ \E r \in Reqs : CheckoutItems(r)

PlaceSpec == Init /\ [][NextPlace]_vars

\* ------- cancel_order / admin_cancel_order / admin_refund_order, statement by statement
CancelKinds == {"cancel", "admin_cancel", "refund"}

\* The request arrives; kind names the endpoint. The admin endpoints have no owner check.
CancelStart(r, kind, u, o) ==
    /\ req[r].pc = "idle"
    /\ req' = [req EXCEPT ![r] = [IdleReq EXCEPT !.kind = kind, !.pc = "check", !.user = u,
                                                 !.order = o]]
    /\ UNCHANGED <<dbvars, lock, decr, deactivated_by>>

\* The order is read and its status checked; was_paid is kept in `pay`. admin_refund_order
\* also reads the order's payments and refuses when there is none.
CancelCheck(r) ==
    LET o == req[r].order
        code == IF req[r].kind = "cancel" THEN cancel_order_code(req[r].user, o)
                ELSE IF req[r].kind = "admin_cancel" THEN admin_cancel_order_code(o)
                ELSE admin_refund_order_code(o)
    IN
    /\ req[r].kind \in CancelKinds /\ req[r].pc = "check"
    /\ req' = IF code # 200 THEN Finish(r, code)
              ELSE IF req[r].kind = "refund" THEN [req EXCEPT ![r].pc = "restore", ![r].pay = 1]
              ELSE IF WasPaid(orders[o].status) /\ PaymentsOf(o) # {}
                   THEN [req EXCEPT ![r].pc = "mark", ![r].pay = 1]
              ELSE [req EXCEPT ![r].pc = "restore",
                               ![r].pay = IF WasPaid(orders[o].status) THEN 1 ELSE 0]
    /\ UNCHANGED <<dbvars, lock, decr, deactivated_by>>

\* cancel_order / admin_cancel_order, if was_paid: every payment of the order is marked
\* REFUNDED and committed
CancelMark(r) ==
    /\ req[r].kind \in CancelKinds /\ req[r].pc = "mark"
    /\ payments' = MarkRefunded(req[r].order)
    /\ req' = [req EXCEPT ![r].pc = "restore"]
    /\ UNCHANGED <<name, price_cents, stock_qty, active, cartExists, cart, cartDup, orders,
                   lock, decr, deactivated_by, invoices, accounts, reset_tokens, threads,
                   products, carts, cart_items>>

\* for item in order.items: product.stock_qty += item.quantity; the product is switched
\* on again when its stock is positive; product_repo.update(product) commits
CancelRestore(r) ==
    LET o == req[r].order IN
    /\ req[r].kind \in CancelKinds /\ req[r].pc = "restore"
    /\ stock_qty' = StockAfterRestore(orders[o].items)
    /\ active' = ActiveAfterRestoreAll(orders[o].items)
    /\ deactivated_by' = DeactivatedAfterRestore(orders[o].items)
    /\ req' = [req EXCEPT ![r].pc = "status"]
    /\ UNCHANGED <<name, price_cents, cartExists, cart, cartDup, orders, payments, lock, decr,
                   invoices, accounts, reset_tokens, threads, products, carts, cart_items>>

\* order.status and the timestamps are written and committed; admin_refund_order marks
\* the payments REFUNDED after that; 200
CancelUpdate(r) ==
    LET o == req[r].order
        was_paid == req[r].pay = 1
    IN
    /\ req[r].kind \in CancelKinds /\ req[r].pc = "status"
    /\ orders' = IF req[r].kind = "refund"
                 THEN [orders EXCEPT ![o].status = "REMBOURSEE", ![o].refunded_at = TRUE]
                 ELSE [orders EXCEPT ![o].status = CancelStatus(was_paid),
                                     ![o].refunded_at = IF was_paid THEN TRUE ELSE @,
                                     ![o].cancelled_at = TRUE]
    /\ payments' = IF req[r].kind = "refund" THEN MarkRefunded(o) ELSE payments
    /\ req' = Finish(r, 200)
    /\ UNCHANGED <<name, price_cents, stock_qty, active, cartExists, cart, cartDup,
                   lock, decr, deactivated_by, invoices, accounts, reset_tokens, threads,
                   products, carts, cart_items>>

NextCancel ==
    \/ \E u \in Users, o \in OrderIds, card \in Cards : pay_order(u, o, card)
    \/ \E r \in Reqs, kind \in CancelKinds, u \in Users, o \in OrderIds : CancelStart(r, kind, u, o)
    \/ \E r \in Reqs : CancelCheck(r)
    \/ \E r \in Reqs : CancelMark(r)
    \/ \E r \in Reqs : CancelRestore(r)
    \/ \E r \in Reqs : CancelUpdate(r)

CancelSpec == InitPay /\ [][NextCancel]_vars

\* ------------------------- get_invoice / download_invoice_pdf, statement by statement
\* The request arrives; kind is "invoice" for get_invoice, "pdf" for download_invoice_pdf.
InvoiceStart(r, kind, u, o) ==
    /\ req[r].pc = "idle"
    /\ req' = [req EXCEPT ![r] = [IdleReq EXCEPT !.kind = kind, !.pc = "read", !.user = u,
                                                 !.order = o]]
    /\ UNCHANGED <<dbvars, lock, decr, deactivated_by>>

\* The order is read and its owner compared with the caller, then
\* invoice = invoice_repo.get_by_order_id(order_id)
InvoiceRead(r) ==
    LET o == req[r].order IN
    /\ req[r].kind \in {"invoice", "pdf"} /\ req[r].pc = "read"
    /\ req' = IF ~Visible(req[r].user, o)
              THEN Finish(r, 404)
              ELSE [req EXCEPT ![r].pc = "create", ![r].seen = invoice_get_by_order_id(o)]
    /\ UNCHANGED <<dbvars, lock, decr, deactivated_by>>

\* if not invoice: invoice = invoice_repo.create(invoice_data), which commits; the
\* answer is then built and returned
InvoiceCreate(r) ==
    LET o == req[r].order IN
    /\ req[r].kind \in {"invoice", "pdf"} /\ req[r].pc = "create"
    /\ invoices' = (IF req[r].seen = 0 THEN Append(invoices, NewInvoice(o)) ELSE invoices)
    /\ req' = Finish(r, 200)
    /\ UNCHANGED <<name, price_cents, stock_qty, active, cartExists, cart, cartDup, orders,
                   payments, accounts, reset_tokens, threads,
                   products, carts, cart_items, lock, decr, deactivated_by>>

\* Two invoice requests, each get_invoice or download_invoice_pdf, interleaved between
\* their database statements, on the order InitPay describes.
NextInvoice ==
    \/ \E r \in Reqs, kind \in {"invoice", "pdf"}, u \in Users, o \in OrderIds :
            InvoiceStart(r, kind, u, o)
    \/ \E r \in Reqs : InvoiceRead(r)
    \/ \E r \in Reqs : InvoiceCreate(r)

InvoiceSpec == InitPay /\ [][NextInvoice]_vars

\* ------------------------------------------------------------- PaymentService
\* PaymentService.process_payment: the ValueError it raises, None when it returns
process_payment_error(o, card) ==
    IF ~Existing(o) THEN "Commande introuvable"
    ELSE IF orders[o].status \notin {"CREE", "VALIDEE"} THEN "Commande déjà payée ou traitée"
    ELSE IF ~charge_card(card).success THEN "Paiement refusé"
    ELSE None

\* PaymentService.process_payment: payment_data_dict
ServicePayment(o, amount, success) ==
    [order_id |-> o, amount_cents |-> amount,
     status |-> IF success THEN "PAID" ELSE "FAILED", charge_id |-> success]

\* PaymentService.process_payment: the row is created and committed whatever the
\* gateway answered; the order is left as it is
process_payment(o, card) ==
    IF process_payment_error(o, card) \notin {None, "Paiement refusé"}
    THEN NoWrite
    ELSE /\ Len(payments) < MaxPayments
         /\ payments' = Append(payments, ServicePayment(o, total_cents(orders[o].items),
                                                        charge_card(card).success))
         /\ UNCHANGED <<name, price_cents, stock_qty, active, cartExists, cart, cartDup, orders,
                        invoices, accounts, reset_tokens, threads,
                        products, carts, cart_items, lock, req, decr,
                        deactivated_by>>

\* PaymentService.process_refund: the payment the order points to; 0 = None
initial_payment(o) ==
    IF orders[o].payment_id \in DOMAIN payments THEN orders[o].payment_id ELSE 0

\* PaymentService.process_refund: the ValueError it raises, None when it returns;
\* refunded is the gateway's answer
process_refund_error(o, refunded) ==
    IF ~Existing(o) THEN "Commande introuvable"
    ELSE IF orders[o].status \notin {"PAYEE", "ANNULEE"}
    THEN "Remboursement non autorisé au statut actuel"
    ELSE IF initial_payment(o) = 0 THEN "Aucun paiement initial trouvé"
    ELSE IF ~payments[initial_payment(o)].charge_id THEN "Aucun charge_id trouvé"
    ELSE IF ~refunded THEN "Remboursement échoué"
    ELSE None

\* PaymentService.process_refund: refund_data; amount_cents 0 or None (-1 here) stands
\* for the order's total
RefundPayment(o, amount_cents) ==
    LET amount == IF amount_cents \in {-1, 0} THEN total_cents(orders[o].items)
                  ELSE amount_cents
    IN [order_id |-> o, amount_cents |-> 0 - amount, status |-> "REFUNDED", charge_id |-> TRUE]

\* PaymentService.process_refund
process_refund(o, amount_cents, refunded) ==
    IF process_refund_error(o, refunded) # None
    THEN NoWrite
    ELSE /\ Len(payments) < MaxPayments
         /\ payments' = Append(payments, RefundPayment(o, amount_cents))
         /\ UNCHANGED <<name, price_cents, stock_qty, active, cartExists, cart, cartDup, orders,
                        invoices, accounts, reset_tokens, threads,
                        products, carts, cart_items, lock, req, decr,
                        deactivated_by>>

NextService ==
    \/ \E u \in Users, o \in OrderIds, card \in Cards : pay_order(u, o, card)
    \/ \E u \in Users, o \in OrderIds : cancel_order(u, o)
    \/ \E a \in Callers, o \in OrderIds : require_admin(a, admin_cancel_order(o))
    \/ \E a \in Callers, o \in OrderIds : require_admin(a, admin_refund_order(o))
    \/ \E o \in OrderIds, card \in Cards \ {"invalid"} : process_payment(o, card)
    \/ \E o \in OrderIds, amount_cents \in {-1, 0, 1}, refunded \in BOOLEAN :
            process_refund(o, amount_cents, refunded)

ServiceSpec == InitPay /\ [][NextService]_vars

\* ------------------------------------------------ PaymentGateway, simulation
\* Card numbers and ids are sequences of one-character strings.
\* str.startswith / str.endswith
startswith(s, prefix) == Len(s) >= Len(prefix) /\ SubSeq(s, 1, Len(prefix)) = prefix

endswith(s, suffix) ==
    Len(s) >= Len(suffix) /\ SubSeq(s, Len(s) - Len(suffix) + 1, Len(s)) = suffix

\* _simulate_payment: card_number.replace(" ", "").replace("-", "")
card_number_clean(card_number) == SelectSeq(card_number, LAMBDA c : c \notin {" ", "-"})

\* _simulate_payment: success_cards
success_cards ==
    {<<"4", "2", "4", "2", "4", "2", "4", "2", "4", "2", "4", "2", "4", "2", "4", "2">>,
     <<"5", "5", "5", "5", "5", "5", "5", "5", "5", "5", "5", "5", "4", "4", "4", "4">>,
     <<"4", "0", "0", "0", "0", "0", "2", "5", "0", "0", "0", "0", "3", "1", "5", "5">>}

\* _simulate_payment: declined_cards, each number with its reason
declined_cards ==
    (<<"4", "0", "0", "0", "0", "0", "0", "0", "0", "0", "0", "0", "0", "0", "0", "2">> :> "Votre carte a été refusée.")
    @@ (<<"4", "0", "0", "0", "0", "0", "0", "0", "0", "0", "0", "0", "9", "9", "9", "5">> :> "Votre carte a été refusée. Fonds insuffisants.")
    @@ (<<"4", "0", "0", "0", "0", "0", "0", "0", "0", "0", "0", "0", "0", "0", "6", "9">> :> "Votre carte a expiré.")
    @@ (<<"4", "0", "0", "0", "0", "0", "0", "0", "0", "0", "0", "0", "0", "1", "2", "7">> :> "Le code de sécurité de votre carte est incorrect.")

\* uuid.uuid4().hex[:24]: the 24 hexadecimal characters an id ends with
HexTails == {[k \in 1..24 |-> "0"], [k \in 1..24 |-> "f"]}

\* _simulate_payment that refuses a number ending in 0000 before it looks at the prefixes
SimulatePaymentZerosFirst(card_number, amount_cents, idempotency_key, transaction_hex, charge_hex) ==
    LET clean == card_number_clean(card_number)
        accepted == [success |-> TRUE,
                     transaction_id |-> <<"p", "i", "_", "s", "i", "m", "_">> \o transaction_hex,
                     failure_reason |-> None,
                     charge_id |-> <<"c", "h", "_", "s", "i", "m", "_">> \o charge_hex]
    IN
    IF clean \in DOMAIN declined_cards
    THEN [success |-> FALSE, transaction_id |-> None, failure_reason |-> declined_cards[clean],
          charge_id |-> None]
    ELSE IF endswith(clean, <<"0", "0", "0", "0">>)
    THEN [success |-> FALSE, transaction_id |-> None,
          failure_reason |-> "Votre carte a été refusée.", charge_id |-> None]
    ELSE accepted

\* PaymentGateway._simulate_payment; transaction_hex and charge_hex are the random tails
\* of the two ids
simulate_payment(card_number, amount_cents, idempotency_key, transaction_hex, charge_hex) ==
    LET clean == card_number_clean(card_number)
        accepted == [success |-> TRUE,
                     transaction_id |-> <<"p", "i", "_", "s", "i", "m", "_">> \o transaction_hex,
                     failure_reason |-> None,
                     charge_id |-> <<"c", "h", "_", "s", "i", "m", "_">> \o charge_hex]
    IN
    IF clean \in DOMAIN declined_cards
    THEN [success |-> FALSE, transaction_id |-> None, failure_reason |-> declined_cards[clean],
          charge_id |-> None]
    ELSE IF clean \in success_cards \/ startswith(clean, <<"4", "2", "4", "2">>) \/ startswith(clean, <<"5", "5", "5", "5">>)
    THEN accepted
    ELSE IF endswith(clean, <<"0", "0", "0", "0">>)
    THEN [success |-> FALSE, transaction_id |-> None,
          failure_reason |-> "Votre carte a été refusée.", charge_id |-> None]
    ELSE accepted

\* Characters of the card numbers tried in full
CardChars == {"4", "2", "0"}

\* Card numbers written out: the listed test numbers, two of them as a form prints them,
\* and numbers of the 5555 range
WrittenCards ==
    success_cards \cup DOMAIN declined_cards
    \cup {<<"4", "2", "4", "2", " ", "4", "2", "4", "2", " ", "4", "2", "4", "2", " ", "4", "2", "4", "2">>,
          <<"4", "0", "0", "0", "-", "0", "0", "0", "0", "-", "0", "0", "0", "0", "-", "0", "0", "0", "2">>,
          <<"5", "5", "5", "5", "0", "0", "0", "0", "0", "0", "0", "0", "0", "0", "0", "0">>,
          <<"5", "5", "5", "5">>,
          <<"4", "1", "1", "1", "1", "1", "1", "1", "1", "1", "1", "1", "0", "0", "0", "0">>,
          <<"4", "2", " ", "4", "2">>,
          <<"9", " ", "0", "0", "-", "0", "0">>}

\* Card numbers the gateway is called with: every string of at most MaxCardLen
\* characters of CardChars (the empty string among them) and the written ones
CardNumbers == UNION {[1..n -> CardChars] : n \in 0..MaxCardLen} \cup WrittenCards

\* A call of _simulate_payment: the slot r1 records the arguments and the result
GatewayCall(card_number, amount_cents, idempotency_key, transaction_hex, charge_hex) ==
    /\ req["r1"].pc = "idle"
    /\ req' = [req EXCEPT !["r1"] =
                  [kind |-> "charge", pc |-> "done", card_number |-> card_number,
                   result |-> simulate_payment(card_number, amount_cents, idempotency_key,
                                               transaction_hex, charge_hex)]]
    /\ UNCHANGED <<dbvars, lock, decr, deactivated_by>>

NextGateway ==
    /\ req["r1"].pc = "idle"
    /\ \E card_number \in CardNumbers, amount_cents \in 1..MaxQty, idempotency_key \in OrderIds,
          transaction_hex \in HexTails, charge_hex \in HexTails :
            GatewayCall(card_number, amount_cents, idempotency_key, transaction_hex, charge_hex)

GatewaySpec == Init /\ [][NextGateway]_vars

\* ------------------------------------------- PostgreSQLCartRepository, row by row
\* The other variables, which the cart repository leaves alone
noncartvars == <<name, price_cents, stock_qty, active, cartExists, cart, cartDup, orders, payments,
                 invoices, accounts, reset_tokens, threads, products, lock, decr, deactivated_by>>

\* Index of the first element of a set of row indexes; 0 = None
first(rows) == IF rows = {} THEN 0 ELSE CHOOSE i \in rows : \A j \in rows : i <= j

\* PostgreSQLCartRepository.get_by_user_id: the user's carts row; 0 = None
cart_get_by_user_id(user_id) ==
    IF user_id = "" THEN 0 ELSE first({i \in DOMAIN carts : carts[i] = user_id})

\* query(CartItem).filter(cart_id == cart.id, product_id == pid).first(); 0 = None
cart_item_first(cart_id, product_id) ==
    first({i \in DOMAIN cart_items :
              cart_items[i].cart_id = cart_id /\ cart_items[i].product_id = product_id})

\* db.delete(cart_item)
WithoutRow(rows, i) == [k \in 1..(Len(rows) - 1) |-> IF k < i THEN rows[k] ELSE rows[k + 1]]

\* Product ids the repository is called with: those of the catalogue, one that no
\* product has, and the empty string
RepoProductIds == ProductIds \cup {""}

\* PostgreSQLCartRepository.add_item: what the call gives back (1 = True, 0 = False,
\* -1 = the commit raises: cart_items.product_id references no product)
add_item_returns(user_id, product_id, quantity) ==
    IF quantity <= 0 \/ product_id = "" THEN 0
    ELSE IF product_id \notin products THEN -1
    ELSE 1

\* PostgreSQLCartRepository.add_item: the tables after the call; create_cart has
\* committed the new carts row before the line is written
add_item_writes(user_id, product_id, quantity) ==
    LET found == cart_get_by_user_id(user_id)
        cart_id == IF found = 0 THEN Len(carts) + 1 ELSE found
        existing_item == IF found = 0 THEN 0 ELSE cart_item_first(cart_id, product_id)
    IN
    IF add_item_returns(user_id, product_id, quantity) = 0
    THEN UNCHANGED <<carts, cart_items>>
    ELSE /\ carts' = (IF found = 0 THEN Append(carts, user_id) ELSE carts)
         /\ IF add_item_returns(user_id, product_id, quantity) = -1
            THEN UNCHANGED cart_items
            ELSE IF existing_item # 0
            THEN /\ cart_items[existing_item].quantity + quantity <= MaxLineQty
                 /\ cart_items' = [cart_items EXCEPT ![existing_item].quantity = @ + quantity]
            ELSE cart_items' = Append(cart_items, [cart_id |-> cart_id, product_id |-> product_id,
                                                   quantity |-> quantity])

\* PostgreSQLCartRepository.remove_item: what the call gives back (1 = True, 0 = False)
remove_item_returns(user_id, product_id, quantity) ==
    LET cart_id == cart_get_by_user_id(user_id) IN
    IF cart_id = 0 THEN 0
    ELSE IF cart_item_first(cart_id, product_id) = 0 THEN 0
    ELSE 1

\* remove_item that deletes the line only once its quantity has gone below zero
RemoveItemWritesKeepZero(user_id, product_id, quantity) ==
    LET cart_item == cart_item_first(cart_get_by_user_id(user_id), product_id) IN
    /\ UNCHANGED carts
    /\ IF remove_item_returns(user_id, product_id, quantity) = 0
       THEN UNCHANGED cart_items
       ELSE IF quantity = 0
       THEN cart_items' = WithoutRow(cart_items, cart_item)
       ELSE IF cart_items[cart_item].quantity - quantity < 0
       THEN cart_items' = WithoutRow(cart_items, cart_item)
       ELSE /\ cart_items[cart_item].quantity - quantity <= MaxLineQty
            /\ cart_items' = [cart_items EXCEPT ![cart_item].quantity = @ - quantity]

\* PostgreSQLCartRepository.remove_item: the tables after the call
remove_item_writes(user_id, product_id, quantity) ==
    LET cart_item == cart_item_first(cart_get_by_user_id(user_id), product_id) IN
    /\ UNCHANGED carts
    /\ IF remove_item_returns(user_id, product_id, quantity) = 0
       THEN UNCHANGED cart_items
       ELSE IF quantity = 0
       THEN cart_items' = WithoutRow(cart_items, cart_item)
       ELSE IF cart_items[cart_item].quantity - quantity <= 0
       THEN cart_items' = WithoutRow(cart_items, cart_item)
       ELSE /\ cart_items[cart_item].quantity - quantity <= MaxLineQty
            /\ cart_items' = [cart_items EXCEPT ![cart_item].quantity = @ - quantity]

\* PostgreSQLCartRepository.clear_cart: what the call gives back (1 = True, 0 = False)
clear_cart_returns(user_id) == IF cart_get_by_user_id(user_id) = 0 THEN 0 ELSE 1

\* PostgreSQLCartRepository.clear_cart: the tables after the call
clear_cart_writes(user_id) ==
    /\ UNCHANGED carts
    /\ cart_items' = SelectSeq(cart_items,
                               LAMBDA row : row.cart_id # cart_get_by_user_id(user_id))

\* A call of the repository: the slot r1 records the call and what it gave back
RepoCalled(kind, user_id, product_id, quantity, returned) ==
    req' = [req EXCEPT !["r1"] = [IdleReq EXCEPT !.kind = kind, !.pc = "done", !.user = user_id,
                                                 !.product = product_id, !.qty = quantity,
                                                 !.code = returned]]

add_item(user_id, product_id, quantity) ==
    /\ add_item_writes(user_id, product_id, quantity)
    /\ RepoCalled("add_item", user_id, product_id, quantity,
                  add_item_returns(user_id, product_id, quantity))
    /\ UNCHANGED noncartvars

remove_item(user_id, product_id, quantity) ==
    /\ remove_item_writes(user_id, product_id, quantity)
    /\ RepoCalled("remove_item", user_id, product_id, quantity,
                  remove_item_returns(user_id, product_id, quantity))
    /\ UNCHANGED noncartvars

repo_clear_cart(user_id) ==
    /\ clear_cart_writes(user_id)
    /\ RepoCalled("clear_cart", user_id, None, 0, clear_cart_returns(user_id))
    /\ UNCHANGED noncartvars

NextRepo ==
    \/ \E u \in Users, p \in RepoProductIds, q \in -1..MaxQty : add_item(u, p, q)
    \/ \E u \in Users, p \in RepoProductIds, q \in -1..MaxQty : remove_item(u, p, q)
    \/ \E u \in Users : repo_clear_cart(u)

RepoSpec == Init /\ [][NextRepo]_vars

\* ------------------------------------------------- checkout after a payment
\* Labels (name, price) the admin gives a product in CheckoutSpec, in one request
MaxPrice == 2
Labels == {<<"n1", 1>>, <<"n2", MaxPrice>>}

\* As Init, with room in the history variable for MaxCheckoutOrders orders.
InitCheckout ==
    /\ InitCatalog
    /\ cartExists = [u \in Users |-> FALSE]
    /\ cart = [u \in Users |-> [p \in Products |-> 0]]
    /\ cartDup = [u \in Users |-> [p \in Products |-> 0]]
    /\ orders = <<>>
    /\ payments = <<>>
    /\ InitTables
    /\ lock = [p \in Products |-> None]
    /\ req = [r \in Reqs |-> IdleReq]
    /\ decr = [o \in 1..MaxCheckoutOrders |-> [p \in Products |-> 0]]
    /\ deactivated_by = [p \in Products |-> None]

\* Requests served one at a time: carts, checkout, payment and the admin's edits of a
\* product's stock, active flag, and name with price.
NextCheckout ==
    \/ \E u \in Users, p \in ProductIds, q \in 1..MaxQty : add_to_cart(u, p, q)
    \/ \E u \in Users, p \in ProductIds, q \in 0..MaxQty : remove_from_cart(u, p, q)
    \/ \E u \in Users : checkout_within(u, MaxCheckoutOrders)
    \/ TimePasses
    \/ \E u \in Users, o \in 1..MaxCheckoutOrders, card \in Cards : pay_order(u, o, card)
    \/ \E p \in Products, s \in 0..MaxStock : admin_update_product(p, None, -1, s, None)
    \/ \E p \in Products, a \in {"true", "false"} : admin_update_product(p, None, -1, -1, a)
    \/ \E p \in Products, l \in Labels : admin_update_product(p, l[1], l[2], -1, None)

CheckoutSpec == InitCheckout /\ [][NextCheckout]_vars

\* ------------------------------------------------ the product repository's stock calls
\* Every operation that writes a product's price or stock: payment, cancellation and
\* refund of an order placed from a cart, admin edits (among them edits with a blank name
\* or a negative price or stock), and calls of reserve_stock and release_stock with any
\* integer quantity.
NextStock ==
    \/ \E u \in Users, p \in Products, q \in 1..MaxQty : add_to_cart(u, p, q)
    \/ \E u \in Users : checkout(u)
    \/ \E u \in Users, o \in OrderIds, card \in Cards : pay_order(u, o, card)
    \/ \E u \in Users, o \in OrderIds : cancel_order(u, o)
    \/ \E o \in OrderIds : admin_refund_order(o)
    \/ \E p \in ProductIds, n \in {" n2 ", "  ", ""} : admin_update_product(p, n, -1, -1, None)
    \/ \E p \in Products, c \in {-2, MaxPrice} : admin_update_product(p, None, c, -1, None)
    \/ \E p \in Products, q \in {-2, 0, MaxStock} : admin_update_product(p, None, -1, q, None)
    \/ \E p \in ProductIds, q \in -MaxQty..MaxQty : reserve_stock(p, q)
    \/ \E p \in ProductIds, q \in -MaxQty..MaxQty : release_stock(p, q)

StockSpec == Init /\ [][NextStock]_vars

\* ------------------------------------------------ the rows of the products table
\* Ids of the rows the sample-data initializer creates, in the order it takes them, and
\* of the four rows reset-defaults inserts; the requests of this model never edit or
\* order these rows, which stay active
SeedIdSeq == <<"s1", "s2", "s3", "s4">>

DefaultIds == {"d1", "d2", "d3", "d4"}

ProductRowIds == Products \cup {SeedIdSeq[i] : i \in DOMAIN SeedIdSeq} \cup DefaultIds

\* PostgreSQLProductRepository.get_all_active
get_all_active == {p \in products : p \in Products => active[p]}

\* product_repo.get_by_id(...) finds no row: the request is answered 404 and writes nothing
product_found(p, body) == IF p \notin products THEN NoWrite ELSE body

\* PostgreSQLProductRepository.delete: the cart lines and the order lines that reference
\* the product are deleted, then the product row
delete_product_writes(p) ==
    /\ cart' = [u \in Users |-> [x \in Products |-> IF x = p THEN 0 ELSE cart[u][x]]]
    /\ cartDup' = [u \in Users |-> [x \in Products |-> IF x = p THEN 0 ELSE cartDup[u][x]]]
    /\ orders' = [o \in DOMAIN orders |->
                     [orders[o] EXCEPT !.items =
                         [x \in Products |-> IF x = p THEN NoLine ELSE orders[o].items[x]]]]
    /\ products' = products \ {p}

\* DELETE /admin/products/{product_id}
admin_delete_product(p) ==
    product_found(p,
        /\ delete_product_writes(p)
        /\ UNCHANGED <<name, price_cents, stock_qty, active, cartExists, payments, invoices,
                       accounts, reset_tokens, threads, carts, cart_items, lock, req, decr,
                       deactivated_by>>)

\* POST /admin/products/reset-defaults: every cart line, every order line and every
\* product row is deleted, then the four default products are inserted
admin_reset_products_to_four ==
    /\ cart' = [u \in Users |-> [x \in Products |-> 0]]
    /\ cartDup' = [u \in Users |-> [x \in Products |-> 0]]
    /\ orders' = [o \in DOMAIN orders |-> [orders[o] EXCEPT !.items = NoItems]]
    /\ products' = DefaultIds
    /\ UNCHANGED <<name, price_cents, stock_qty, active, cartExists, payments, invoices,
                   accounts, reset_tokens, threads, carts, cart_items, lock, req, decr,
                   deactivated_by>>

\* init_sample_data: the two unused ids the new product rows take
SeedPair ==
    LET unused == {i \in DOMAIN SeedIdSeq : SeedIdSeq[i] \notin products}
        a == CHOOSE i \in unused : \A j \in unused : i <= j
        b == CHOOSE i \in unused \ {a} : \A j \in unused \ {a} : i <= j
    IN {SeedIdSeq[a], SeedIdSeq[b]}

\* init_sample_data: the admin and client accounts, with the salts hash_password draws
SeedAccountsSalted(salt1, salt2) ==
    <<[email |-> "admin@example.com", password_hash |-> hash_password("admin123", salt1),
       is_admin |-> TRUE],
      [email |-> "client@example.com", password_hash |-> hash_password("secret", salt2),
       is_admin |-> FALSE]>>

\* init_sample_data, called by POST /init-data: two products when get_all_active()
\* returns no row, two accounts when get_all() returns no user
init_sample_data ==
    /\ IF get_all_active = {}
       THEN /\ Cardinality({i \in DOMAIN SeedIdSeq : SeedIdSeq[i] \notin products}) >= 2
            /\ products' = products \cup SeedPair
       ELSE UNCHANGED products
    /\ IF accounts = <<>>
       THEN \E salt1, salt2 \in Salts : accounts' = SeedAccountsSalted(salt1, salt2)
       ELSE UNCHANGED accounts
    /\ UNCHANGED <<name, price_cents, stock_qty, active, cartExists, cart, cartDup, orders, payments,
                   invoices, reset_tokens, threads, carts, cart_items, lock, req, decr,
                   deactivated_by>>

\* The database before any initialization: the catalogue's product may be there or not,
\* the users table is empty
InitSeed ==
    /\ InitCatalog
    /\ cartExists = [u \in Users |-> FALSE]
    /\ cart = [u \in Users |-> [p \in Products |-> 0]]
    /\ cartDup = [u \in Users |-> [p \in Products |-> 0]]
    /\ orders = <<>>
    /\ payments = <<>>
    /\ invoices = <<>>
    /\ accounts = <<>>
    /\ reset_tokens = <<>>
    /\ threads = <<>>
    /\ products \in {{}, Products}
    /\ carts = <<>>
    /\ cart_items = <<>>
    /\ InitIdle

\* The initializer among the requests that create, hide and delete rows of the products
\* and users tables
NextSeed ==
    \/ init_sample_data
    \/ \E email \in Emails, password \in Passwords, salt \in Salts : register(email, password, salt)
    \/ \E a \in Callers, p \in ProductRowIds, f \in {"true", "false"} :
            require_admin(a, IF p \in Products
                             THEN product_found(p, admin_update_product(p, None, -1, -1, f))
                             ELSE NoWrite)
    \/ \E a \in Callers, p \in ProductRowIds : require_admin(a, admin_delete_product(p))

SeedSpec == InitSeed /\ [][NextSeed]_vars

\* Carts, checkout (with room for a second order), payment and cancellation while the
\* admin relabels, hides, deletes and resets products
NextCatalog ==
    \/ \E u \in Users, p \in ProductIds, q \in 1..MaxQty :
            product_found(p, add_to_cart(u, p, q))
    \/ \E u \in Users : clear_cart(u)
    \/ \E u \in Users : checkout_within(u, MaxCheckoutOrders)
    \/ \E u \in Users, o \in 1..MaxCheckoutOrders : pay_order(u, o, "ok")
    \/ \E u \in Users, o \in 1..MaxCheckoutOrders : cancel_order(u, o)
    \/ \E p \in Products, l \in Labels :
            require_admin("admin", product_found(p, admin_update_product(p, l[1], l[2], -1, None)))
    \/ \E p \in ProductRowIds : require_admin("admin", admin_delete_product(p))
    \/ require_admin("admin", admin_reset_products_to_four)

CatalogSpec == InitCheckout /\ [][NextCatalog]_vars

\* ================================================================ properties
Owner(o) == orders[o].user_id
Lines(o) == {p \in Products : orders[o].items[p].quantity > 0}
Succeeded(o) == {i \in PaymentsOf(o) : payments[i].status = "SUCCEEDED"}

\* The step changes the status of order o from one of `from` to one of `to`.
Moves(o, from, to) == orders[o].status \in from /\ orders'[o].status \in to

\* The step is a cancel request (user or admin) on order o that is answered 200.
CancelOK(o) ==
    \/ \E u \in Users : cancel_order_code(u, o) = 200 /\ cancel_order(u, o)
    \/ admin_cancel_order_code(o) = 200 /\ admin_cancel_order(o)

\* The step appends a payment row for order o.
NewPaymentFor(o) ==
    /\ Len(payments') = Len(payments) + 1
    /\ payments'[Len(payments')].order_id = o

\* ----------------------------------------------------------------------- C1
\* Every endpoint answers 400 for an order whose status is outside the endpoint's
\* source statuses.
C1_Refused ==
    \A o \in DOMAIN orders :
        LET st == orders[o].status IN
        /\ st # "CREE" => \A card \in Cards : pay_order_code(Owner(o), o, card) = 400
        /\ st \notin {"CREE", "PAYEE"} => admin_validate_order_code(o) = 400
        /\ st \notin {"VALIDEE", "PAYEE"} => admin_ship_order_code(o) = 400
        /\ st # "EXPEDIEE" => admin_mark_delivered_code(o) = 400
        /\ st \notin {"CREE", "VALIDEE", "PAYEE"} =>
               cancel_order_code(Owner(o), o) = 400 /\ admin_cancel_order_code(o) = 400
        /\ st \notin {"PAYEE", "EXPEDIEE", "LIVREE"} => admin_refund_order_code(o) = 400

\* C1: every change of an order's status is one of CREE->PAYEE by pay_order,
\* CREE/PAYEE->VALIDEE by admin validate, VALIDEE/PAYEE->EXPEDIEE by admin ship,
\* EXPEDIEE->LIVREE by admin mark-delivered, CREE/VALIDEE/PAYEE->ANNULEE or REMBOURSEE
\* by a user or admin cancel, PAYEE/EXPEDIEE/LIVREE->REMBOURSEE by admin refund; a
\* request that finds the order in any other status is answered 400 and (being no
\* listed transition) leaves the status as it was.
C1_StatusMachine ==
    [][/\ C1_Refused
       /\ C1_Refused'
       /\ \A o \in DOMAIN orders :
            orders'[o].status # orders[o].status =>
                \/ Moves(o, {"CREE"}, {"PAYEE"})
                   /\ \E card \in Cards : pay_order(Owner(o), o, card)
                \/ Moves(o, {"CREE", "PAYEE"}, {"VALIDEE"}) /\ admin_validate_order(o)
                \/ Moves(o, {"VALIDEE", "PAYEE"}, {"EXPEDIEE"})
                   /\ \E d \in {"PREPAREE"} : admin_ship_order(o, d)
                \/ Moves(o, {"EXPEDIEE"}, {"LIVREE"}) /\ admin_mark_delivered(o)
                \/ Moves(o, {"CREE", "VALIDEE", "PAYEE"}, {"ANNULEE", "REMBOURSEE"})
                   /\ (admin_cancel_order(o) \/ cancel_order(Owner(o), o))
                \/ Moves(o, {"PAYEE", "EXPEDIEE", "LIVREE"}, {"REMBOURSEE"})
                   /\ admin_refund_order(o)]_vars

\* An order that went CREE -> PAYEE -> VALIDEE -> EXPEDIEE -> LIVREE, where ship is now
\* refused with 400.
C1_Witness ==
    \E o \in DOMAIN orders :
        /\ orders[o].status = "LIVREE"
        /\ orders[o].payment_id # 0
        /\ orders[o].validated_at /\ orders[o].shipped_at /\ orders[o].delivered_at
        /\ admin_ship_order_code(o) = 400

\* ----------------------------------------------------------------------- C2
\* C2 as stated: once an order is ANNULEE, REMBOURSEE or LIVREE, no step changes its
\* status.
C2_ThreeTerminal ==
    [][\A o \in DOMAIN orders :
         orders[o].status \in {"ANNULEE", "REMBOURSEE", "LIVREE"} =>
             orders'[o].status = orders[o].status]_vars

\* C2 amended: once an order is ANNULEE or REMBOURSEE no step changes its status; a
\* LIVREE order changes status only by admin refund, which makes it REMBOURSEE, and
\* only when the order has a payment.
C2_TwoTerminal ==
    [][\A o \in DOMAIN orders :
         /\ orders[o].status \in {"ANNULEE", "REMBOURSEE"} =>
                orders'[o].status = orders[o].status
         /\ (orders[o].status = "LIVREE" /\ orders'[o].status # "LIVREE") =>
                /\ orders'[o].status = "REMBOURSEE"
                /\ admin_refund_order(o)
                /\ PaymentsOf(o) # {}]_vars

\* A delivered order that has been refunded.
C2_Witness ==
    \E o \in DOMAIN orders :
        orders[o].status = "REMBOURSEE" /\ orders[o].delivered_at /\ orders[o].refunded_at

\* ----------------------------------------------------------------------- C3
\* C3: a step in which pay_order succeeds on order o (a SUCCEEDED payment row for o is
\* appended) leaves each line's product with stock max(0, previous stock - line
\* quantity), inactive when that stock is <= LOW_STOCK_HIDE_THRESHOLD, the payer's
\* cart without lines, the order PAYEE and its payment_id the id of the new row.
C3_PaySuccess ==
    [][\A o \in DOMAIN orders :
         (NewPaymentFor(o) /\ payments'[Len(payments')].status = "SUCCEEDED") =>
             /\ orders[o].status = "CREE"
             /\ \A p \in Lines(o) :
                    /\ stock_qty'[p] = Max(0, stock_qty[p] - orders[o].items[p].quantity)
                    /\ stock_qty'[p] <= LOW_STOCK_HIDE_THRESHOLD => ~active'[p]
             /\ \A p \in Products : cart'[Owner(o)][p] = 0
             /\ orders'[o].status = "PAYEE"
             /\ orders'[o].payment_id = Len(payments')]_vars

\* An order of MaxQty units just paid: its payment SUCCEEDED, the stock written once
\* and down to 0, the product hidden, the payer's cart empty.
C3_Witness ==
    \E o \in DOMAIN orders, p \in Products :
        /\ orders[o].status = "PAYEE"
        /\ orders[o].payment_id \in DOMAIN payments
        /\ payments[orders[o].payment_id].status = "SUCCEEDED"
        /\ orders[o].items[p].quantity = MaxQty
        /\ decr[o][p] = 1
        /\ stock_qty[p] = 0 /\ ~active[p]
        /\ \A x \in Products : cart[Owner(o)][x] = 0

\* ----------------------------------------------------------------------- C4
\* C4: pay_order by the owner of an order whose status is not CREE is answered 400,
\* and no step made for such an order appends a payment row (the gateway is called
\* only on the way to that row) or is a pay_order that changes the database.
C4_PayNotCree ==
    [][\A o \in DOMAIN orders :
         orders[o].status # "CREE" =>
             /\ \A card \in Cards : pay_order_code(Owner(o), o, card) = 400
             /\ ~NewPaymentFor(o)
             /\ \A card \in Cards : pay_order(Owner(o), o, card) => UNCHANGED dbvars]_vars

\* An order already paid, for which a second pay_order is answered 400.
C4_Witness ==
    \E o \in DOMAIN orders :
        /\ orders[o].status = "PAYEE"
        /\ Succeeded(o) # {}
        /\ pay_order_code(Owner(o), o, "ok") = 400

\* ----------------------------------------------------------------------- C5
\* C5: in every state between requests, every cart line's quantity is <= the stock of
\* its product.
C5_CartWithinStock ==
    \A u \in Users, p \in Products : cart[u][p] <= stock_qty[p]

\* ----------------------------------------------------------------------- C6
\* C6: add_to_cart of an active product with (quantity already in the caller's cart +
\* requested quantity) > stock is answered 400 with a message made of the product
\* name, the stock, the quantity held and the quantity requested, and no step lets a
\* cart line grow beyond the stock (the refused add leaves the line as it was).
C6_AddRefused ==
    [][/\ \A u \in Users, p \in Products, q \in 1..MaxQty :
            (active[p] /\ QuantityInCart(u, p) + q > stock_qty[p]) =>
                /\ add_to_cart_code(u, p, q) = 400
                /\ add_to_cart_detail(u, p, q) =
                       [name |-> name[p], stock |-> stock_qty[p],
                        held |-> cart[u][p], requested |-> q]
                /\ add_to_cart(u, p, q) => cart' = cart
       /\ \A u \in Users, p \in Products :
            cart'[u][p] > cart[u][p] => cart'[u][p] <= stock_qty[p]]_vars

\* A cart that holds part of the stock of an active product, so that adding MaxQty
\* more would pass the stock.
C6_Witness ==
    \E u \in Users, p \in Products :
        /\ active[p]
        /\ cart[u][p] > 0
        /\ cart[u][p] < stock_qty[p]
        /\ cart[u][p] + MaxQty > stock_qty[p]
        /\ add_to_cart_code(u, p, MaxQty) = 400

\* ----------------------------------------------------------------------- C7
\* C7: once two add_to_cart requests of one user for one product have both returned,
\* the quantity of the product committed in the user's cart is <= its stock.
C7_NoJointOversell ==
    \A r1 \in Reqs, r2 \in Reqs :
        (/\ r1 # r2
         /\ req[r1].pc = "done" /\ req[r2].pc = "done"
         /\ req[r1].user = req[r2].user /\ req[r1].product = req[r2].product) =>
            cart[req[r1].user][req[r1].product] + cartDup[req[r1].user][req[r1].product]
                <= stock_qty[req[r1].product]

\* ----------------------------------------------------------------------- C8
\* C8: whatever the interleaving of pay_order requests on one order, the stock of each
\* line's product is written by the decrement loop at most once for the order, and
\* the order has at most one SUCCEEDED payment row.
C8_PaidOnce ==
    \A o \in DOMAIN orders :
        /\ Cardinality(Succeeded(o)) <= 1
        /\ \A p \in Products : decr[o][p] <= 1

\* ----------------------------------------------------------------------- C9
\* C9: a cancel (user or admin) answered 200 on a PAYEE order adds each line's quantity
\* to its product's stock, leaves every payment row of the order REFUNDED and the
\* order REMBOURSEE with cancelled_at and refunded_at set; on a CREE order it changes
\* no payment row and leaves the order ANNULEE with cancelled_at set.
C9_CancelEffects ==
    [][\A o \in DOMAIN orders :
         CancelOK(o) =>
             /\ orders[o].status = "PAYEE" =>
                    /\ \A p \in Lines(o) :
                           stock_qty'[p] = stock_qty[p] + orders[o].items[p].quantity
                    /\ \A i \in PaymentsOf(o) : payments'[i].status = "REFUNDED"
                    /\ orders'[o].status = "REMBOURSEE"
                    /\ orders'[o].cancelled_at /\ orders'[o].refunded_at
             /\ orders[o].status = "CREE" =>
                    /\ payments' = payments
                    /\ orders'[o].status = "ANNULEE"
                    /\ orders'[o].cancelled_at]_vars

\* A paid order that was cancelled: REMBOURSEE, both timestamps set, its payment
\* REFUNDED, never shipped.
C9_Witness ==
    \E o \in DOMAIN orders :
        /\ orders[o].status = "REMBOURSEE"
        /\ orders[o].cancelled_at /\ orders[o].refunded_at
        /\ PaymentsOf(o) # {}
        /\ \A i \in PaymentsOf(o) : payments[i].status = "REFUNDED"

\* ---------------------------------------------------------------------- C10
\* C10: a cancel answered 200 leaves the order REMBOURSEE, with its payments REFUNDED,
\* when a payment had succeeded for the order, and ANNULEE only when none had.
C10_RefundIfEverPaid ==
    [][\A o \in DOMAIN orders :
         CancelOK(o) =>
             /\ Succeeded(o) # {} =>
                    /\ orders'[o].status = "REMBOURSEE"
                    /\ \A i \in PaymentsOf(o) : payments'[i].status = "REFUNDED"
             /\ orders'[o].status = "ANNULEE" => Succeeded(o) = {}]_vars

\* ---------------------------------------------------------------------- C11
\* The caller's PAYEE orders created within the last 30 minutes whose line total equals
\* the current cart total.
PaidRecentlySameTotal(u) ==
    {o \in DOMAIN orders :
        /\ Owner(o) = u
        /\ orders[o].status = "PAYEE"
        /\ orders[o].recent
        /\ total_cents(orders[o].items) = CartTotal(u)}

\* C11: a checkout by a caller who has a PAYEE order, created within the last 30
\* minutes, whose line total equals the cart total, names that order in its answer and
\* neither creates an order nor modifies any order or order line.
C11_IdempotentCheckout ==
    [][\A u \in Users :
          (PaidRecentlySameTotal(u) # {} /\ checkout_within(u, MaxCheckoutOrders)) =>
              /\ checkout_order(u) \in PaidRecentlySameTotal(u)
              /\ UNCHANGED orders]_vars

\* ---------------------------------------------------------------------- C12
\* C12: a checkout answered 200 outside the branch that returns a paid order names an
\* order of the caller in status CREE, the caller's open order if there is one and a new
\* order otherwise; after it that order's lines are exactly the cart's lines, each with
\* the product's current name and price; stock, active flags and carts are unchanged.
C12_CheckoutLines ==
    [][\A u \in Users :
          (checkout_code(u) = 200 /\ RecentPaidSame(u) = {}
              /\ checkout_within(u, MaxCheckoutOrders)) =>
              LET o == checkout_order(u) IN
              /\ o \in DOMAIN orders'
              /\ orders'[o].status = "CREE" /\ orders'[o].user_id = u
              /\ IF \E x \in DOMAIN orders : Owner(x) = u /\ orders[x].status = "CREE"
                 THEN Existing(o) /\ Owner(o) = u /\ orders[o].status = "CREE"
                      /\ Len(orders') = Len(orders)
                 ELSE ~Existing(o) /\ Len(orders') = Len(orders) + 1
              /\ \A p \in Products :
                    IF cart[u][p] > 0
                    THEN /\ orders'[o].items[p].quantity = cart[u][p]
                         /\ orders'[o].items[p].name = name[p]
                         /\ orders'[o].items[p].unit_price_cents = price_cents[p]
                    ELSE orders'[o].items[p].quantity = 0
              /\ \A x \in DOMAIN orders : x # o => orders'[x] = orders[x]
              /\ UNCHANGED <<stock_qty, active, cartExists, cart>>]_vars

\* A second order, open, written after the admin renamed and repriced the product: its
\* line carries the new name and price and the quantity the owner's cart holds.
C12_Witness ==
    \E o \in DOMAIN orders :
        /\ o > 1 /\ orders[o].status = "CREE"
        /\ \E p \in Products :
            /\ orders[o].items[p].quantity = MaxQty
            /\ cart[Owner(o)][p] = MaxQty
            /\ orders[o].items[p].name = "n2"
            /\ orders[o].items[p].unit_price_cents = MaxPrice

\* ---------------------------------------------------------------------- C13
\* The caller has no cart or an empty one, or a cart line's product is inactive or has
\* less stock than the line's quantity. (A cart line always has its product: deleting a
\* product deletes its cart lines.)
C13_BadCart(u) ==
    \/ ~cartExists[u]
    \/ \A p \in Products : cart[u][p] = 0
    \/ \E p \in Products : cart[u][p] > 0 /\ ~active[p]
    \/ \E p \in Products : cart[u][p] > 0 /\ stock_qty[p] < cart[u][p]

\* C13: checkout answers 400 when the caller has no cart or an empty cart, or when a
\* cart line's product is inactive or has stock_qty smaller than the line's quantity,
\* and such a checkout creates or changes no order.
C13_CheckoutRefused ==
    [][\A u \in Users :
          /\ C13_BadCart(u) => checkout_code(u) = 400
          /\ (C13_BadCart(u) /\ checkout_within(u, MaxCheckoutOrders)) => UNCHANGED orders]_vars

\* A cart line that a later sale left short of stock, on a product the sale hid, while
\* the other user has no cart line at all: both checkouts are answered 400.
C13_Witness ==
    \E u, v \in Users, p \in Products :
        /\ cartExists[u] /\ cart[u][p] > stock_qty[p] /\ ~active[p]
        /\ cartExists[v] /\ cart[v][p] = 0
        /\ checkout_code(u) = 400 /\ checkout_code(v) = 400
        /\ \E o \in DOMAIN orders : Owner(o) = v /\ orders[o].status = "PAYEE"

UnknownOrder == Len(orders) + 1

\* The step is a request of caller u on order o through one of the six order endpoints
\* open to customers.
C15_RequestBy(u, o) ==
    \/ get_order(u, o)
    \/ \E card \in Cards : pay_order(u, o, card)
    \/ cancel_order(u, o)
    \/ get_invoice(u, o)
    \/ download_invoice_pdf(u, o)
    \/ get_order_tracking(u, o)

\* C15: get_order, pay_order, cancel_order, get_invoice, download_invoice_pdf and
\* get_order_tracking, called on an order of another user, answer 404 exactly as they do
\* for an order that does not exist, and change no payment, invoice, stock, cart or order.
C15_ForeignOrderNotFound ==
    [][\A u \in Users, o \in DOMAIN orders :
          Owner(o) # u =>
              /\ get_order_answer(u, o) = get_order_answer(u, UnknownOrder)
              /\ get_order_answer(u, o).code = 404
              /\ \A card \in Cards :
                    /\ pay_order_code(u, o, card) = pay_order_code(u, UnknownOrder, card)
                    /\ pay_order_code(u, o, card) = 404
              /\ cancel_order_code(u, o) = cancel_order_code(u, UnknownOrder)
              /\ cancel_order_code(u, o) = 404
              /\ get_invoice_answer(u, o) = get_invoice_answer(u, UnknownOrder)
              /\ get_invoice_answer(u, o).code = 404
              /\ get_order_tracking_answer(u, o) = get_order_tracking_answer(u, UnknownOrder)
              /\ get_order_tracking_answer(u, o).code = 404
              /\ C15_RequestBy(u, o) => UNCHANGED dbvars]_vars

\* A paid and shipped order with its invoice, and a user who does not own it: the owner
\* is answered 200 by the reads, the other user 404.
C15_Witness ==
    \E u, v \in Users, o \in DOMAIN orders :
        /\ Owner(o) = v /\ u # v
        /\ InvoicesOf(o) # {} /\ orders[o].delivery # None
        /\ get_invoice_answer(v, o).code = 200 /\ get_order_tracking_answer(v, o).code = 200
        /\ get_invoice_answer(u, o).code = 404 /\ get_order_tracking_answer(u, o).code = 404

\* ---------------------------------------------------------------------- C16
\* The step is a request of caller u to one of the admin endpoints.
C16_AdminRequestBy(u) ==
    \/ \E o \in OrderIds : require_admin(u, admin_validate_order(o))
    \/ \E o \in OrderIds : require_admin(u, admin_ship_order(o, "PREPAREE"))
    \/ \E o \in OrderIds : require_admin(u, admin_mark_delivered(o))
    \/ \E o \in OrderIds : require_admin(u, admin_refund_order(o))
    \/ \E o \in OrderIds : require_admin(u, admin_cancel_order(o))
    \/ \E p \in Products, s \in 0..MaxStock :
            require_admin(u, admin_update_product(p, None, -1, s, None))
    \/ \E p \in Products, f \in {"true", "false"} :
            require_admin(u, admin_update_product(p, None, -1, -1, f))

WithEmail(email) == {i \in DOMAIN accounts : accounts[i].email = email}

\* No two accounts share an email, and every account added after the seeded ones has
\* is_admin false.
C17_UniqueNoAdmin ==
    /\ \A i, j \in DOMAIN accounts : accounts[i].email = accounts[j].email => i = j
    /\ \A i \in DOMAIN accounts : i > Len(SeedAccounts) => ~accounts[i].is_admin

\* C17: register(email, password) gives back the existing user, creating and modifying
\* nothing, when a user has the email and the password verifies against its stored hash;
\* fails with "Email déjà utilisé." and changes nothing when a user has the email and
\* the password does not verify; otherwise appends exactly one user, with that email, a
\* hash of that password and is_admin false. No two users share an email and no user
\* added by register is an admin.
C17_Register ==
    [][/\ C17_UniqueNoAdmin /\ C17_UniqueNoAdmin'
       /\ \A email \in Emails, password \in Passwords :
            /\ \A i \in WithEmail(email) :
                  register_result(email, password) =
                      IF verify_password(password, accounts[i].password_hash)
                      THEN "existing user"
                      ELSE "Email déjà utilisé."
            /\ WithEmail(email) = {} => register_result(email, password) = "new user"
            /\ \A salt \in Salts :
                  register(email, password, salt) =>
                      IF WithEmail(email) # {}
                      THEN UNCHANGED accounts
                      ELSE /\ Len(accounts') = Len(accounts) + 1
                           /\ SubSeq(accounts', 1, Len(accounts)) = accounts
                           /\ accounts'[Len(accounts')].email = email
                           /\ ~accounts'[Len(accounts')].is_admin
                           /\ verify_password(password, accounts'[Len(accounts')].password_hash)]_vars

\* A registered user: registering again with the same password gives the user back,
\* with the other password it fails; so does registering with the admin's email.
C17_Witness ==
    \E i \in DOMAIN accounts, password, other \in Passwords :
        /\ i > Len(SeedAccounts) /\ accounts[i].email = "new@example.com"
        /\ register_result("new@example.com", password) = "existing user"
        /\ register_result("new@example.com", other) = "Email déjà utilisé."
        /\ register_result("admin@example.com", "secret") = "Email déjà utilisé."

\* ---------------------------------------------------------------------- C18
\* C18: verify_reset_token(t) gives a user only if t was issued by generate_reset_token,
\* is unused and unexpired, and then it gives the user the token was issued for; a
\* reset_password(t, p) that returns true sets the user's hash to one of p and marks t
\* used; once t is used or expired it stays so, verify_reset_token(t) gives no user,
\* and reset_password(t, p') returns false and leaves every password hash unchanged.
C18_TokenSingleUse ==
    [][\A t \in TokenIds :
          /\ verify_reset_token(t) # 0 =>
                /\ t \in DOMAIN reset_tokens
                /\ ~reset_tokens[t].used /\ ~reset_tokens[t].expired
                /\ verify_reset_token(t) = reset_tokens[t].user_id
          /\ \A p \in Passwords, salt \in Salts :
                (reset_password_result(t) /\ reset_password(t, p, salt)) =>
                    /\ reset_tokens'[t].used
                    /\ verify_password(p, accounts'[reset_tokens[t].user_id].password_hash)
          /\ (t \in DOMAIN reset_tokens /\ (reset_tokens[t].used \/ reset_tokens[t].expired)) =>
                /\ reset_tokens[t].used => reset_tokens'[t].used
                /\ reset_tokens[t].expired => reset_tokens'[t].expired
                /\ verify_reset_token(t) = 0
                /\ ~reset_password_result(t)
                /\ \A p \in Passwords, salt \in Salts :
                      reset_password(t, p, salt) => UNCHANGED accounts]_vars

\* A token that reset a password within its hour: the user's hash is no longer the seeded
\* one, the row is still there, and the token no longer verifies.
C18_Witness ==
    \E t \in DOMAIN reset_tokens :
        /\ reset_tokens[t].used /\ ~reset_tokens[t].expired /\ ~reset_tokens[t].deleted
        /\ reset_tokens[t].user_id \in DOMAIN SeedAccounts
        /\ accounts[reset_tokens[t].user_id].password_hash #
               SeedAccounts[reset_tokens[t].user_id].password_hash
        /\ verify_reset_token(t) = 0 /\ ~reset_password_result(t)

\* ---------------------------------------------------------------------- C19
\* C19: when the gateway declines the charge, pay_order appends one Payment row for the
\* order with status FAILED and no charge_id, answers 402 with the gateway's failure
\* reason, and leaves the order (still CREE), the stock, the active flags and the carts
\* unchanged; pay_order on the same order is answered afterwards as it was before.
C19_DeclinedCharge ==
    [][\A u \in Users, o \in OrderIds :
          (pay_order_code(u, o, "declined") = 402 /\ pay_order(u, o, "declined")) =>
              /\ ~charge_card("declined").success
              /\ pay_order_detail(u, o, "declined") = charge_card("declined").failure_reason
              /\ Len(payments') = Len(payments) + 1
              /\ SubSeq(payments', 1, Len(payments)) = payments
              /\ payments'[Len(payments')].order_id = o
              /\ payments'[Len(payments')].status = "FAILED"
              /\ ~payments'[Len(payments')].charge_id
              /\ orders[o].status = "CREE"
              /\ UNCHANGED <<orders, stock_qty, active, cartExists, cart>>
              /\ \A card \in Cards : (pay_order_code(u, o, card))' = pay_order_code(u, o, card)
              /\ (pay_order_code(u, o, "ok"))' = 200]_vars

\* An order paid at the second attempt: its first Payment row is FAILED without
\* charge_id, the second SUCCEEDED.
C19_Witness ==
    \E o \in DOMAIN orders :
        /\ orders[o].status = "PAYEE"
        /\ \E i, j \in PaymentsOf(o) :
            /\ i < j
            /\ payments[i].status = "FAILED" /\ ~payments[i].charge_id
            /\ payments[j].status = "SUCCEEDED"

\* ---------------------------------------------------------------------- C20
\* The fields of the payment form in the order pay_order validates them, with the
\* message of each.
C20_Fields ==
    <<[field |-> "card_number", message |-> "card_error", required |-> TRUE],
      [field |-> "cvc", message |-> "cvv_error", required |-> TRUE],
      [field |-> "expiry", message |-> "expiry_error", required |-> TRUE],
      [field |-> "postal_code", message |-> "postal_error", required |-> FALSE],
      [field |-> "phone", message |-> "phone_error", required |-> FALSE],
      [field |-> "street_number", message |-> "street_error", required |-> FALSE],
      [field |-> "street_name", message |-> "street_name_error", required |-> FALSE]>>

\* Field number i of the form fails its validation (a field left out is not validated).
C20_Fails(form, i) == form[C20_Fields[i].field] = "invalid"

\* C20: for an order of the caller in status CREE, pay_order validates card number, CVV,
\* expiry date, then postal code, phone, street number and street name when supplied;
\* if field i is the first that fails, the answer is 422 with the message of field i,
\* and the request creates no Payment row and changes no order, stock or cart (no step
\* that changes the state is such a request); if none fails the answer is 200 or 402.
C20_ValidationOrder ==
    [][vars' # vars =>
          \A o \in DOMAIN orders, form \in Forms :
              orders[o].status = "CREE" =>
                  /\ \A i \in DOMAIN C20_Fields :
                        (C20_Fails(form, i) /\ \A j \in 1..(i - 1) : ~C20_Fails(form, j)) =>
                            /\ pay_order_form_answer(Owner(o), o, form) =
                                   [code |-> 422, detail |-> C20_Fields[i].message]
                            /\ ~pay_order_form(Owner(o), o, form)
                  /\ (\A i \in DOMAIN C20_Fields : ~C20_Fails(form, i)) =>
                        pay_order_form_answer(Owner(o), o, form).code \in {200, 402}]_vars

\* An open order with a declined attempt on record, for which a form with a bad CVV and
\* a bad phone number is answered 422 with the CVV's message, and a form with only a bad
\* street name with the street name's message.
C20_Witness ==
    \E o \in DOMAIN orders :
        /\ orders[o].status = "CREE" /\ PaymentsOf(o) # {}
        /\ pay_order_form_answer(Owner(o), o,
               [card_number |-> "ok", cvc |-> "invalid", expiry |-> "valid",
                postal_code |-> "absent", phone |-> "invalid", street_number |-> "valid",
                street_name |-> "invalid"]) = [code |-> 422, detail |-> "cvv_error"]
        /\ pay_order_form_answer(Owner(o), o,
               [card_number |-> "declined", cvc |-> "valid", expiry |-> "valid",
                postal_code |-> "absent", phone |-> "absent", street_number |-> "absent",
                street_name |-> "invalid"]) = [code |-> 422, detail |-> "street_name_error"]

\* ---------------------------------------------------------------------- C21
\* C21: a step that changes a product's name or price (an admin edit) leaves the name and
\* unit_price_cents of every existing order line, and so the computed total of every
\* existing order, as they were.
C21_LineSnapshot ==
    [][(name' # name \/ price_cents' # price_cents) =>
          \A o \in DOMAIN orders :
              /\ o \in DOMAIN orders'
              /\ \A p \in Lines(o) :
                    /\ orders'[o].items[p].name = orders[o].items[p].name
                    /\ orders'[o].items[p].unit_price_cents = orders[o].items[p].unit_price_cents
              /\ total_cents(orders'[o].items) = total_cents(orders[o].items)]_vars

\* An order line written at the first name and price of a product the admin has since
\* renamed and repriced: the order's total is still the quantity at the first price.
C21_Witness ==
    \E o \in DOMAIN orders, p \in Products :
        /\ orders[o].items[p].quantity = MaxQty
        /\ orders[o].items[p].name = "n1" /\ orders[o].items[p].unit_price_cents = 1
        /\ name[p] = "n2" /\ price_cents[p] = MaxPrice
        /\ total_cents(orders[o].items) = MaxQty

\* ---------------------------------------------------------------------- C22
\* C22: in every state, the answer get_invoice gives the owner of an order has total_cents
\* equal to the sum of unit_price_cents x quantity over the lines it returns, and number
\* "INV-" followed by the first 8 characters of the invoice id in upper case.
C22_InvoiceAnswer ==
    \A o \in DOMAIN orders :
        LET answer == get_invoice_answer(Owner(o), o).detail IN
        /\ answer.total_cents = SumLines(answer.lines, Products)
        /\ answer.number = IF InvoiceUsed(o).id = 1
                           THEN <<"I", "N", "V", "-", "3", "F", "A", "8", "5", "F", "6", "4">>
                           ELSE <<"I", "N", "V", "-", "0", "B", "E", "D", "7", "C", "1", "9">>

\* ---------------------------------------------------------------------- C23
\* C23: whatever the interleaving of get_invoice and download_invoice_pdf requests, an
\* order never has more than one row in the invoices table, and no step changes the
\* total_cents (or anything else) of a row once it is created.
C23_OneInvoicePerOrder ==
    /\ [](\A o \in DOMAIN orders : Cardinality(InvoicesOf(o)) <= 1)
    /\ [][\A i \in DOMAIN invoices : i \in DOMAIN invoices' /\ invoices'[i] = invoices[i]]_vars

\* ---------------------------------------------------------------------- C24
\* C24: a step that makes a product inactive (an admin update setting active to false, or
\* a payment that brings the stock to or below the threshold) leaves no cart line for the
\* product in any user's cart.
C24_InactiveLeavesNoCartLine ==
    [][\A p \in Products :
          (active[p] /\ ~active'[p]) => \A u \in Users : cart'[u][p] = 0]_vars

\* ---------------------------------------------------------------------- C25
\* C25: a cancel (user or admin) or an admin refund answered 200 switches a product of the
\* order from inactive to active only if a sale had switched it off (its stock having
\* reached the threshold); a product the admin switched off is still inactive after the
\* step that restores its stock.
C25_ReactivateOnlyAutoHidden ==
    [][\A o \in DOMAIN orders :
          (CancelOK(o) \/ (admin_refund_order_code(o) = 200 /\ admin_refund_order(o))) =>
              \A p \in Lines(o) :
                  /\ (~active[p] /\ active'[p]) => deactivated_by[p] = "sale"
                  /\ deactivated_by[p] = "admin" => ~active'[p]]_vars

\* ---------------------------------------------------------------------- C26
\* C26: admin_refund_order on an existing order answers 200 exactly when the order is
\* PAYEE, EXPEDIEE or LIVREE and has a payment row, and 400 otherwise; a step that is a
\* refund answered 200 adds each line's quantity to its product's stock, leaves every
\* payment row of the order REFUNDED and the order REMBOURSEE with refunded_at set; a
\* refund answered 400 changes no stock, payment or order.
C26_Refund ==
    [][\A o \in DOMAIN orders :
          LET refundable == /\ orders[o].status \in {"PAYEE", "EXPEDIEE", "LIVREE"}
                            /\ \E i \in DOMAIN payments : payments[i].order_id = o
          IN
          /\ admin_refund_order_code(o) = IF refundable THEN 200 ELSE 400
          /\ (refundable /\ admin_refund_order(o)) =>
                /\ \A p \in Products :
                      stock_qty'[p] = stock_qty[p] + orders[o].items[p].quantity
                /\ Len(payments') = Len(payments)
                /\ \A i \in DOMAIN payments :
                      payments'[i].status =
                          IF payments[i].order_id = o THEN "REFUNDED" ELSE payments[i].status
                /\ orders'[o].status = "REMBOURSEE" /\ orders'[o].refunded_at
                /\ orders'[o].items = orders[o].items
          /\ (~refundable /\ admin_refund_order(o)) =>
                UNCHANGED <<stock_qty, payments, orders>>]_vars

\* A shipped order refunded by the admin: REMBOURSEE with refunded_at set and never
\* cancelled, its payments REFUNDED, the stock back at its first value.
C26_Witness ==
    \E o \in DOMAIN orders :
        /\ orders[o].status = "REMBOURSEE"
        /\ orders[o].shipped_at /\ orders[o].refunded_at /\ ~orders[o].cancelled_at
        /\ PaymentsOf(o) # {}
        /\ \A i \in PaymentsOf(o) : payments[i].status = "REFUNDED"
        /\ \A p \in Lines(o) : stock_qty[p] = MaxStock

\* ---------------------------------------------------------------------- C27
\* The step is a request that posts a message with an accepted content to thread t.
C27_PostTo(t) ==
    \/ \E u \in Users : post_support_message(u, t, "valid")
    \/ admin_post_support_message(t, "valid")

\* C27 as stated: once a thread is closed, a request posting a message to it, from its
\* owner or from the admin, is answered 400 and adds no message, and no step reopens it.
C27_ClosedRejectsEveryPost ==
    [][\A t \in DOMAIN threads :
          threads[t].closed =>
              /\ post_support_message_code(threads[t].user_id, t, "valid") = 400
              /\ admin_post_support_message_code(t, "valid") = 400
              /\ C27_PostTo(t) => threads'[t].messages = threads[t].messages
              /\ threads'[t].closed]_vars

\* C27 amended: once a thread is closed, its owner's post_support_message with an
\* accepted content is answered 400 and no step adds a message written by a user to the
\* thread; admin_post_support_message is still answered 200 and appends a message
\* without author; no step reopens the thread.
C27_ClosedRejectsOwnerPost ==
    [][\A t \in DOMAIN threads :
          threads[t].closed =>
              /\ post_support_message_code(threads[t].user_id, t, "valid") = 400
              /\ admin_post_support_message_code(t, "valid") = 200
              /\ Len(threads'[t].messages) >= Len(threads[t].messages)
              /\ SubSeq(threads'[t].messages, 1, Len(threads[t].messages)) = threads[t].messages
              /\ \A k \in (Len(threads[t].messages) + 1)..Len(threads'[t].messages) :
                    threads'[t].messages[k] = None
              /\ threads'[t].closed]_vars

\* A closed thread that holds a message of its owner, written before the admin closed
\* it, followed by a message of the support; the owner's next post is answered 400.
C27_Witness ==
    \E t \in DOMAIN threads :
        /\ threads[t].closed
        /\ threads[t].messages = <<threads[t].user_id, None>>
        /\ post_support_message_code(threads[t].user_id, t, "valid") = 400

\* ---------------------------------------------------------------------- C28
\* The Luhn sum of the digits from position i on: a digit at an even distance-from-right
\* rank (second, fourth, ... from the right) is doubled, less 9 above 9.
RECURSIVE C28_SumFrom(_, _)
C28_SumFrom(s, i) ==
    IF i > Len(s) THEN 0
    ELSE LET rank == Len(s) - i + 1
             d == s[i]
         IN (IF rank % 2 = 1 THEN d ELSE IF d >= 5 THEN 2 * d - 9 ELSE 2 * d)
            + C28_SumFrom(s, i + 1)

\* C28: validate_luhn(s) returns true exactly when s is a non-empty digit string whose
\* digits are not all identical and whose Luhn sum is a multiple of 10; it returns true
\* for 4242424242424242, 4111111111111111 and 5555555555554444, false for
\* 4111111111111110, 0000000000000000, 1111111111111111 and the empty string.
C28_Luhn ==
    req["r1"].kind = "luhn" =>
        LET s == req["r1"].card
            returned == req["r1"].code = 1
        IN
        /\ returned <=> (/\ Len(s) > 0
                         /\ \E i, j \in DOMAIN s : s[i] # s[j]
                         /\ C28_SumFrom(s, 1) % 10 = 0)
        /\ s \in {<<4, 2, 4, 2, 4, 2, 4, 2, 4, 2, 4, 2, 4, 2, 4, 2>>,
                   <<4, 1, 1, 1, 1, 1, 1, 1, 1, 1, 1, 1, 1, 1, 1, 1>>,
                   <<5, 5, 5, 5, 5, 5, 5, 5, 5, 5, 5, 5, 4, 4, 4, 4>>} => returned
        /\ s \in {<<4, 1, 1, 1, 1, 1, 1, 1, 1, 1, 1, 1, 1, 1, 1, 0>>,
                   <<0, 0, 0, 0, 0, 0, 0, 0, 0, 0, 0, 0, 0, 0, 0, 0>>,
                   <<1, 1, 1, 1, 1, 1, 1, 1, 1, 1, 1, 1, 1, 1, 1, 1>>,
                   <<>>} => ~returned

\* validate_luhn has just accepted 5555555555554444.
C28_Witness ==
    /\ req["r1"].kind = "luhn"
    /\ req["r1"].card = <<5, 5, 5, 5, 5, 5, 5, 5, 5, 5, 5, 5, 4, 4, 4, 4>>
    /\ req["r1"].code = 1

\* ---------------------------------------------------------------------- C29
\* C29: when the re-check that follows add_item finds the cart line above the product's
\* stock, the request is answered 400 and the add is undone: the committed quantity of
\* the cart line no longer holds the units this request added.
C29_FailedRecheckUndoesAdd ==
    [][\A r \in Reqs :
          (/\ req[r].kind = "add" /\ req[r].pc = "final"
           /\ req'[r].pc = "done" /\ req'[r].code = 400)
          => LET u == req[r].user
                 p == req[r].product
             IN cart'[u][p] + cartDup'[u][p] = cart[u][p] + cartDup[u][p] - req[r].qty]_vars

\* ---------------------------------------------------------------------- C30
\* C30: every Payment row, whichever code path wrote it (pay_order, cancellation, admin
\* refund, PaymentService.process_payment, PaymentService.process_refund), has a status
\* among PENDING, SUCCEEDED, FAILED and REFUNDED.
C30_PaymentStatusKnown ==
    \A i \in DOMAIN payments : payments[i].status \in PaymentStatus

\* ---------------------------------------------------------------------- C31
\* The card number of the call recorded in slot r1, without spaces and dashes
C31_Number == SelectSeq(req["r1"].card_number, LAMBDA c : c # " " /\ c # "-")

\* The number is one of the listed numbers that succeed or begins with 4242 or 5555
C31_Favoured ==
    \/ C31_Number \in {<<"4", "2", "4", "2", "4", "2", "4", "2", "4", "2", "4", "2", "4", "2", "4", "2">>,
                       <<"5", "5", "5", "5", "5", "5", "5", "5", "5", "5", "5", "5", "4", "4", "4", "4">>,
                       <<"4", "0", "0", "0", "0", "0", "2", "5", "0", "0", "0", "0", "3", "1", "5", "5">>}
    \/ Len(C31_Number) >= 4 /\ SubSeq(C31_Number, 1, 4) \in {<<"4", "2", "4", "2">>, <<"5", "5", "5", "5">>}

\* The number ends with four zero digits
C31_FourZeros ==
    Len(C31_Number) >= 4 /\ \A k \in (Len(C31_Number) - 3)..Len(C31_Number) : C31_Number[k] = "0"

\* The reason each of the four numbers of the deny list fails with; None for another number
C31_DenyReason ==
    IF C31_Number = <<"4", "0", "0", "0", "0", "0", "0", "0", "0", "0", "0", "0", "0", "0", "0", "2">>
    THEN "Votre carte a été refusée."
    ELSE IF C31_Number = <<"4", "0", "0", "0", "0", "0", "0", "0", "0", "0", "0", "0", "9", "9", "9", "5">>
    THEN "Votre carte a été refusée. Fonds insuffisants."
    ELSE IF C31_Number = <<"4", "0", "0", "0", "0", "0", "0", "0", "0", "0", "0", "0", "0", "0", "6", "9">>
    THEN "Votre carte a expiré."
    ELSE IF C31_Number = <<"4", "0", "0", "0", "0", "0", "0", "0", "0", "0", "0", "0", "0", "1", "2", "7">>
    THEN "Le code de sécurité de votre carte est incorrect."
    ELSE None

\* The charge succeeded with a transaction id pi_sim_... and a charge id ch_sim_...
C31_Succeeded ==
    LET result == req["r1"].result IN
    /\ result.success
    /\ result.failure_reason = None
    /\ result.transaction_id # None /\ result.charge_id # None
    /\ SubSeq(result.transaction_id, 1, 7) = <<"p", "i", "_", "s", "i", "m", "_">>
    /\ SubSeq(result.charge_id, 1, 7) = <<"c", "h", "_", "s", "i", "m", "_">>
    /\ Len(result.transaction_id) = 31 /\ Len(result.charge_id) = 31

\* The charge failed with that reason, without any id
C31_Failed(reason) ==
    LET result == req["r1"].result IN
    /\ ~result.success
    /\ result.failure_reason = reason
    /\ result.transaction_id = None /\ result.charge_id = None

\* The parts of the claim that do not concern the numbers ending in four zeros: the deny
\* list, the favoured numbers, and a result that depends on the card number alone
C31_Common ==
    /\ C31_DenyReason # None => C31_Failed(C31_DenyReason)
    /\ C31_DenyReason = None /\ C31_Favoured => C31_Succeeded
    /\ C31_DenyReason = None /\ ~C31_Favoured /\ ~C31_FourZeros => C31_Succeeded
    /\ \A amount_cents \in 0..MaxStock, idempotency_key \in 0..MaxOrders, h \in HexTails :
          simulate_payment(req["r1"].card_number, amount_cents, idempotency_key, h, h).success
              = req["r1"].result.success

\* C31 as stated: the simulated gateway decides from the card number alone; each number of
\* the deny list fails with its reason, the listed numbers and those beginning with 4242
\* or 5555 succeed with ids pi_sim_ / ch_sim_, ANY number ending in four zeros is
\* refused, and every other number is accepted.
C31_AnyFourZerosRefused ==
    req["r1"].kind = "charge" =>
        /\ C31_Common
        /\ C31_FourZeros => ~req["r1"].result.success

\* C31, amended: as above, but a number ending in four zeros is refused only when it is
\* neither listed nor begins with 4242 or 5555 (those succeed whatever their ending).
C31_OtherFourZerosRefused ==
    req["r1"].kind = "charge" =>
        /\ C31_Common
        /\ C31_DenyReason = None /\ ~C31_Favoured /\ C31_FourZeros
              => C31_Failed("Votre carte a été refusée.")

\* The gateway has accepted 42420000, a number of the 4242 range that ends in four zeros.
C31_Witness ==
    /\ req["r1"].kind = "charge"
    /\ req["r1"].card_number = <<"4", "2", "4", "2", "0", "0", "0", "0">>
    /\ req["r1"].result.success

\* ---------------------------------------------------------------------- C32
\* The rows of a cart_items table that belong to a cart of user u and hold product p
C32_Rows(cart_rows, item_rows, u, p) ==
    {i \in DOMAIN item_rows : cart_rows[item_rows[i].cart_id] = u /\ item_rows[i].product_id = p}

\* What one call of the repository did, as the claim describes it
C32_Call ==
    LET call == req'["r1"]
        u == call.user
        p == call.product
        q == call.qty
        before == C32_Rows(carts, cart_items, u, p)
        after == C32_Rows(carts', cart_items', u, p)
        untouched == carts' = carts /\ cart_items' = cart_items
        line_deleted == /\ Cardinality(after) = Cardinality(before) - 1
                        /\ Len(cart_items') = Len(cart_items) - 1
                        /\ carts' = carts
    IN
    /\ call.kind = "remove_item" =>
          IF (\A i \in DOMAIN carts : carts[i] # u) \/ before = {}
          THEN call.code = 0 /\ untouched
          ELSE LET old == cart_items[CHOOSE i \in before : \A j \in before : i <= j].quantity IN
               /\ q = 0 => line_deleted
               /\ q > 0 /\ old - q <= 0 => line_deleted
               /\ q > 0 /\ old - q > 0 =>
                     /\ Len(cart_items') = Len(cart_items) /\ carts' = carts
                     /\ \E i \in after : cart_items'[i].quantity = old - q
    /\ call.kind = "add_item" /\ (q <= 0 \/ p = "") => call.code = 0 /\ untouched

\* C32: remove_item with quantity 0 deletes the line, with a quantity q > 0 decrements it
\* by q and deletes it when the result is <= 0, and on a missing cart or line returns
\* false and changes nothing; add_item with a quantity <= 0 or an empty product id
\* returns false and writes nothing. So after any sequence of add_item, remove_item and
\* clear_cart every stored cart line has a quantity >= 1 and each user has at most one
\* cart.
C32_CartRepository ==
    /\ [](/\ \A i \in DOMAIN cart_items : cart_items[i].quantity >= 1
          /\ \A i, j \in DOMAIN carts : carts[i] = carts[j] => i = j)
    /\ [][C32_Call]_vars

\* remove_item has just taken one unit off a line that held more, and another user's
\* line is stored too.
C32_Witness ==
    /\ req["r1"].kind = "remove_item" /\ req["r1"].qty = 1 /\ req["r1"].code = 1
    /\ Len(carts) = 2
    /\ \E i \in DOMAIN cart_items :
          carts[cart_items[i].cart_id] = req["r1"].user /\ cart_items[i].quantity >= 1
    /\ \E i \in DOMAIN cart_items : carts[cart_items[i].cart_id] # req["r1"].user

\* ---------------------------------------------------------------------- C33
\* C33: the sample-data initializer creates the two seed products only if the products
\* table is empty and the two seed accounts only if the users table is empty; called in
\* a state where the table already holds rows it creates nothing there, so that calling
\* it again changes nothing.
C33_SeedsOnlyEmptyTables ==
    [][init_sample_data =>
          /\ products # {} => products' = products
          /\ accounts # <<>> => accounts' = accounts
          /\ products = {} => Cardinality(products') = 2
          /\ accounts = <<>> => Len(accounts') = 2]_vars

\* ---------------------------------------------------------------------- C39
\* C39 as stated: once an order has left CREE, its line items, and so its total, never
\* change under any later operation of a user or of the admin (checkout, cart changes,
\* product edit, product deletion, product reset).
C39_LinesNeverChange ==
    [][\A o \in DOMAIN orders :
          orders[o].status # "CREE" => orders'[o].items = orders[o].items]_vars

\* C39, amended: once an order has left CREE, its line items never change under
\* checkout, cart changes, payment, cancellation or product edit; the hard delete of a
\* product removes the lines of that product from the order, and the product reset
\* removes every line.
C39_LinesChangeOnlyByDelete ==
    [][\A o \in DOMAIN orders :
          orders[o].status # "CREE" =>
              \/ orders'[o].items = orders[o].items
              \/ /\ admin_reset_products_to_four
                 /\ \A p \in Products : orders'[o].items[p].quantity = 0
              \/ \E p \in products :
                    /\ delete_product_writes(p)
                    /\ orders'[o].items[p].quantity = 0
                    /\ \A x \in Products \ {p} : orders'[o].items[x] = orders[o].items[x]]_vars

\* A paid order that has lost its lines with the deletion of the product.
C39_Witness ==
    \E o \in DOMAIN orders :
        /\ orders[o].status = "PAYEE"
        /\ \A p \in Products : orders[o].items[p].quantity = 0
        /\ products = {}

\* ---------------------------------------------------------------------- C34
\* C34: stock restoration never gives back more than payment took: without stock edits
\* by the admin, no product's stock_qty ever exceeds its initial value, whatever
\* sequence of checkout, pay, validate, ship, cancel and refund operations is applied.
C34_StockWithinInitial ==
    \A p \in Products : stock_qty[p] <= MaxStock

\* ---------------------------------------------------------------------- C35
\* C35: no order is shipped without having been paid: an order is in EXPEDIEE or LIVREE
\* only if a SUCCEEDED payment was recorded for it.
C35_ShippedWasPaid ==
    \A o \in DOMAIN orders :
        orders[o].status \in {"EXPEDIEE", "LIVREE"}
        => \E i \in DOMAIN payments : /\ payments[i].order_id = o
                                      /\ payments[i].status = "SUCCEEDED"

\* ---------------------------------------------------------------------- C36
\* The order has a payment that succeeded and was not refunded
C36_Paid(o) ==
    \E i \in PaymentsOf(o) : payments[i].status = "SUCCEEDED"

\* Units of product p in the first n orders that are paid and not cancelled or refunded
RECURSIVE C36_Sold(_, _)
C36_Sold(p, n) ==
    IF n = 0 THEN 0
    ELSE C36_Sold(p, n - 1) + (IF C36_Paid(n) THEN orders[n].items[p].quantity ELSE 0)

\* A step in which pay_order succeeds for order o
C36_PaySucceeds(o) ==
    /\ o \in DOMAIN orders
    /\ orders[o].status = "CREE"
    /\ orders'[o].status = "PAYEE"

\* C36: no unit is sold that is not in stock: pay_order succeeds only when every line's
\* product has stock_qty >= the line's quantity at payment time, and for each product
\* the units in paid, not cancelled or refunded orders never exceed the stock that
\* existed.
C36_NoOversell ==
    /\ [][\A o \in 1..MaxCheckoutOrders :
             C36_PaySucceeds(o)
             => \A p \in Products : stock_qty[p] >= orders[o].items[p].quantity]_vars
    /\ [](\A p \in Products : C36_Sold(p, Len(orders)) <= MaxStock)

\* ---------------------------------------------------------------------- C37
\* C37: after any sequence or interleaving of checkout requests, each user has at most
\* one order in status CREE.
C37_OneOpenOrder ==
    \A u \in Users : Cardinality(OpenOrders(u)) <= 1

\* ---------------------------------------------------------------------- C38
\* A step in which cancel_order or admin_cancel_order cancels the paid order o
C38_CancelsPaid(o) ==
    /\ o \in DOMAIN orders
    /\ orders[o].status = "PAYEE"
    /\ orders'[o].status = "REMBOURSEE"
    /\ ~orders[o].cancelled_at
    /\ orders'[o].cancelled_at

\* C38: the refund amount_cents reported by cancel_order / admin_cancel_order for a paid
\* order equals the amount of its SUCCEEDED payment (the order total), whatever number
\* of failed payment attempts preceded the successful one.
C38_RefundIsCharge ==
    [][\A o \in OrderIds :
          C38_CancelsPaid(o)
          => /\ total_refunded(o) = payments[orders[o].payment_id].amount_cents
             /\ total_refunded(o) = total_cents(orders[o].items)]_vars

\* ---------------------------------------------------------------------- C40
\* Request r has run the loop that adds the lines' quantities back to the stock
C40_Restored(r) ==
    /\ req[r].kind \in CancelKinds
    /\ \/ req[r].pc = "status"
       \/ req[r].pc = "done" /\ req[r].code = 200

\* C40: stock restoration happens at most once for an order: across any sequence or
\* interleaving of cancel_order, admin_cancel_order and admin_refund_order requests on
\* the same order, each line's quantity is added back to the stock no more than once.
C40_RestoredOnce ==
    \A r1, r2 \in Reqs :
        (r1 # r2 /\ C40_Restored(r1) /\ C40_Restored(r2)) => req[r1].order # req[r2].order
====
